---------------------------- MODULE Spec2Model ----------------------------
(*************************************************************************)
(* Model of the sxm test-generation engine (src/src/mbt.rs): the plain   *)
(* breadth-first search find_path_to_state, the guard-aware search       *)
(* find_path_to_satisfy_phi, and the three generators built on them,     *)
(* run one after the other as the example's main does, over a bounded    *)
(* family of X-machines.                                                 *)
(*************************************************************************)
EXTENDS Integers, Sequences, FiniteSets, TLC

(*************************************************************************)
(* Bounds of the machine family.                                         *)
(*************************************************************************)
\* number of states of a machine of the family
NStates == 4
\* the memory value the data-dependent guards compare against
MemCap == 2

(*************************************************************************)
(* Option<T>::None of each optional type.                                *)
(*************************************************************************)
NoPhi == "NoPhi"
NoState == 0
NoOutput == "NoOutput"

(*************************************************************************)
(* The machine contract (trait XMachine), for a machine held as a record *)
(* M = [initial_states, route, next].                                    *)
(*************************************************************************)
all_states == [k \in 1..NStates |-> k]

all_inputs == <<1, 2>>

all_phis == <<"Inc", "Match", "Reset", "Dirty">>

States == {all_states[k] : k \in DOMAIN all_states}

Inputs == {all_inputs[k] : k \in DOMAIN all_inputs}

Phis == {all_phis[k] : k \in DOMAIN all_phis}

initial_states(M) == M.initial_states

initial_store == 0

get_phi_for_input(M, state, input) == M.route[<<state, input>>]

next_state(M, state, phi) == M.next[<<state, phi>>]

\* Result<Option<Output>, ()> together with the store as the call leaves it
Ok(mem, out) == [ok |-> TRUE, mem |-> mem, out |-> out]

Err(mem) == [ok |-> FALSE, mem |-> mem, out |-> NoOutput]

\* The processing functions of the family:
\*   Inc   accumulates while the store is below MemCap (guard on the store),
\*   Match accepts only the store MemCap and leaves it alone,
\*   Reset always accepts, clears the store and produces no output,
\*   Dirty writes the store before it tests its guard, which accepts input 2 only.
execute_phi(phi, store, input) ==
    CASE phi = "Inc" ->
            IF store < MemCap THEN Ok(store + 1, <<"Count", store + 1>>)
                              ELSE Err(store)
      [] phi = "Match" ->
            IF store = MemCap THEN Ok(store, <<"Open", input>>) ELSE Err(store)
      [] phi = "Reset" -> Ok(0, NoOutput)
      [] phi = "Dirty" ->
            IF input = 2 THEN Ok(store + 1, <<"Dirty", store + 1>>)
                         ELSE Err(store + 1)

\* .ok().flatten() of an execute_phi result
OkFlatten(r) == IF r.ok THEN r.out ELSE NoOutput

\* the caller-supplied distinguishing sequences (the W set), one per state
distinguishing_sequences(state) == [k \in 1..state |-> all_inputs[1 + (k % 2)]]

(*************************************************************************)
(* The family of machines: every state takes one row of arcs, an arc     *)
(* being a routed phi and the offset of its destination (NoArc: the      *)
(* input is not routed; offset -1: routed, but next_state is None).      *)
(*************************************************************************)
NoArc == [phi |-> NoPhi, off |-> -1]

Arc(phi, off) == [phi |-> phi, off |-> off]

Rows ==
    { <<Arc("Inc", 0), Arc("Match", 1)>>,
      <<Arc("Inc", 1), Arc("Match", 2)>>,
      <<Arc("Reset", 1), NoArc>>,
      <<Arc("Reset", -1), Arc("Inc", 0)>>,
      <<Arc("Dirty", 1), Arc("Dirty", 1)>> }

Dest(state, off) ==
    IF off < 0 THEN NoState ELSE ((state - 1 + off) % NStates) + 1

ArcOf(rows, state, phi) ==
    LET hit == {i \in Inputs : rows[state][i].phi = phi}
    IN  IF hit = {} THEN NoArc ELSE rows[state][CHOOSE i \in hit : TRUE]

MachineOf(init, rows) ==
    [ initial_states |-> init,
      route |-> [p \in States \X Inputs |-> rows[p[1]][p[2]].phi],
      next  |-> [p \in States \X Phis |-> Dest(p[1], ArcOf(rows, p[1], p[2]).off)] ]

InitialChoices == { <<1>>, <<3, 1>> }

Machines ==
    { MachineOf(init, rows) : init \in InitialChoices, rows \in [States -> Rows] }

(*************************************************************************)
(* TestCase (mbt.rs 10-29).                                              *)
(*************************************************************************)
TestCase(name, setup, input, out, verify) ==
    [ name |-> name,
      setup_sequence |-> setup,
      test_input |-> input,
      expected_output |-> out,
      verification_sequence |-> verify ]

(*************************************************************************)
(* find_path_to_state (mbt.rs 95-128).  A search is the record           *)
(*   [target, queue, visited, done, found, path]                         *)
(* with queue a sequence of [state, path] nodes.                         *)
(*************************************************************************)
Contains(seq, x) == \E k \in DOMAIN seq : seq[k] = x

\* the seeding loop over initial_states, with its early return
RECURSIVE PlainSeed(_, _, _)
PlainSeed(starts, k, p) ==
    IF k > Len(starts) THEN p
    ELSE IF starts[k] = p.target
         THEN [p EXCEPT !.done = TRUE, !.found = TRUE, !.path = <<>>]
         ELSE PlainSeed(starts, k + 1,
                  [p EXCEPT !.queue = Append(@, [state |-> starts[k], path |-> <<>>]),
                            !.visited = Append(@, starts[k])])

\* variant: the seeding loop does not look for the target among the initial states
PlainStartNoEarlyReturn(M, target) ==
    [ target |-> target,
      queue |-> [k \in 1..Len(initial_states(M)) |->
                    [state |-> initial_states(M)[k], path |-> <<>>]],
      visited |-> initial_states(M),
      done |-> FALSE, found |-> FALSE, path |-> <<>> ]

PlainStart(M, target) ==
    PlainSeed(initial_states(M), 1,
        [ target |-> target, queue |-> <<>>, visited |-> <<>>,
          done |-> FALSE, found |-> FALSE, path |-> <<>> ])

\* variant: a state is pushed on the queue whether or not it was visited
RECURSIVE PlainExpandNoVisited(_, _, _, _)
PlainExpandNoVisited(M, node, k, p) ==
    IF k > Len(all_inputs) THEN p
    ELSE LET input == all_inputs[k]
             phi   == get_phi_for_input(M, node.state, input)
             nxt   == IF phi = NoPhi THEN NoState
                      ELSE next_state(M, node.state, phi)
         IN  IF nxt = NoState THEN PlainExpandNoVisited(M, node, k + 1, p)
             ELSE IF nxt = p.target
                  THEN [p EXCEPT !.done = TRUE, !.found = TRUE,
                                 !.path = Append(node.path, input)]
                  ELSE PlainExpandNoVisited(M, node, k + 1,
                           [p EXCEPT !.visited = Append(@, nxt),
                                     !.queue = Append(@,
                                         [state |-> nxt,
                                          path |-> Append(node.path, input)])])

\* the for loop over all_inputs for the node popped from the queue
RECURSIVE PlainExpand(_, _, _, _)
PlainExpand(M, node, k, p) ==
    IF k > Len(all_inputs) THEN p
    ELSE LET input == all_inputs[k]
             phi   == get_phi_for_input(M, node.state, input)
             nxt   == IF phi = NoPhi THEN NoState
                      ELSE next_state(M, node.state, phi)
         IN  IF nxt = NoState THEN PlainExpand(M, node, k + 1, p)
             ELSE IF nxt = p.target
                  THEN [p EXCEPT !.done = TRUE, !.found = TRUE,
                                 !.path = Append(node.path, input)]
                  ELSE IF ~Contains(p.visited, nxt)
                       THEN PlainExpand(M, node, k + 1,
                                [p EXCEPT !.visited = Append(@, nxt),
                                          !.queue = Append(@,
                                              [state |-> nxt,
                                               path |-> Append(node.path, input)])])
                       ELSE PlainExpand(M, node, k + 1, p)

\* variant: the queue is popped at its back
PlainStepPopBack(M, p) ==
    IF p.queue = <<>> THEN [p EXCEPT !.done = TRUE, !.found = FALSE]
    ELSE PlainExpand(M, p.queue[Len(p.queue)], 1,
             [p EXCEPT !.queue = SubSeq(@, 1, Len(@) - 1)])

\* one iteration of `while let Some(..) = queue.pop_front()`
PlainStep(M, p) ==
    IF p.queue = <<>> THEN [p EXCEPT !.done = TRUE, !.found = FALSE]
    ELSE PlainExpand(M, Head(p.queue), 1, [p EXCEPT !.queue = Tail(@)])


(*************************************************************************)
(* find_path_to_satisfy_phi (mbt.rs 162-199).  A search is the record    *)
(*   [target_state, target_phi, trigger_input, queue, done, found,       *)
(*    path, mem]                                                         *)
(* with queue a sequence of [state, mem, path] nodes.                    *)
(*************************************************************************)
max_depth == 10

\* Memory::clone: the copy is a value of its own
Clone(mem) == mem

SatStart(M, target_state, target_phi, trigger_input) ==
    [ target_state |-> target_state,
      target_phi |-> target_phi,
      trigger_input |-> trigger_input,
      queue |-> [k \in 1..Len(initial_states(M)) |->
                    [state |-> initial_states(M)[k],
                     mem |-> initial_store,
                     path |-> <<>>]],
      done |-> FALSE, found |-> FALSE, path |-> <<>>, mem |-> initial_store ]

\* the speculative execution of the target phi on a clone of the node's memory
SatAccepts(s, node) ==
    /\ node.state = s.target_state
    /\ execute_phi(s.target_phi, Clone(node.mem), s.trigger_input).ok

\* variant: the memory handed back is the one the speculative execution wrote
SatReturnCheckMem(s, node) ==
    [s EXCEPT !.done = TRUE, !.found = TRUE, !.path = node.path,
              !.mem = execute_phi(s.target_phi, node.mem, s.trigger_input).mem]

\* `return Some((path, curr_mem))`
SatReturn(s, node) ==
    [s EXCEPT !.done = TRUE, !.found = TRUE, !.path = node.path, !.mem = node.mem]

\* the for loop over all_inputs for the node popped from the queue
RECURSIVE SatExpand(_, _, _, _)
SatExpand(M, node, k, s) ==
    IF k > Len(all_inputs) THEN s
    ELSE LET input == all_inputs[k]
             phi   == get_phi_for_input(M, node.state, input)
             r     == execute_phi(phi, Clone(node.mem), input)
             nxt   == next_state(M, node.state, phi)
         IN  IF phi # NoPhi /\ r.ok /\ nxt # NoState
             THEN SatExpand(M, node, k + 1,
                      [s EXCEPT !.queue = Append(@,
                          [state |-> nxt, mem |-> r.mem,
                           path |-> Append(node.path, input)])])
             ELSE SatExpand(M, node, k + 1, s)

\* variant: the depth test lets a path of max_depth inputs be extended
SatStepDeeper(M, s) ==
    IF s.queue = <<>> THEN [s EXCEPT !.done = TRUE, !.found = FALSE]
    ELSE LET node == Head(s.queue)
             rest == [s EXCEPT !.queue = Tail(@)]
         IN  IF SatAccepts(s, node) THEN SatReturn(rest, node)
             ELSE IF Len(node.path) > max_depth THEN rest
             ELSE SatExpand(M, node, 1, rest)

\* variant: a node at the depth bound is put back on the queue
SatStepRequeue(M, s) ==
    IF s.queue = <<>> THEN [s EXCEPT !.done = TRUE, !.found = FALSE]
    ELSE LET node == Head(s.queue)
             rest == [s EXCEPT !.queue = Tail(@)]
         IN  IF SatAccepts(s, node) THEN SatReturn(rest, node)
             ELSE IF Len(node.path) >= max_depth
                  THEN [rest EXCEPT !.queue = Append(@, node)]
             ELSE SatExpand(M, node, 1, rest)

\* variant: the node is taken from the back of the queue
SatStepPopBack(M, s) ==
    IF s.queue = <<>> THEN [s EXCEPT !.done = TRUE, !.found = FALSE]
    ELSE LET node == s.queue[Len(s.queue)]
             rest == [s EXCEPT !.queue = SubSeq(@, 1, Len(@) - 1)]
         IN  IF SatAccepts(s, node) THEN SatReturn(rest, node)
             ELSE IF Len(node.path) >= max_depth THEN rest
             ELSE SatExpand(M, node, 1, rest)

\* one iteration of `while let Some(..) = queue.pop_front()`
SatStep(M, s) ==
    IF s.queue = <<>> THEN [s EXCEPT !.done = TRUE, !.found = FALSE]
    ELSE LET node == Head(s.queue)
             rest == [s EXCEPT !.queue = Tail(@)]
         IN  IF SatAccepts(s, node) THEN SatReturn(rest, node)
             ELSE IF Len(node.path) >= max_depth THEN rest
             ELSE SatExpand(M, node, 1, rest)

(*************************************************************************)
(* The bodies of the generators' loops.                                  *)
(*************************************************************************)
\* variant: the verification sequence is the one of the state under test
RECURSIVE LogicInputsVerifySource(_, _, _, _, _)
LogicInputsVerifySource(M, target_state, path_to_state, k, tests) ==
    IF k > Len(all_inputs) THEN tests
    ELSE LET input == all_inputs[k]
             phi   == get_phi_for_input(M, target_state, input)
             nxt   == IF phi = NoPhi THEN NoState
                      ELSE next_state(M, target_state, phi)
         IN  IF nxt = NoState
             THEN LogicInputsVerifySource(M, target_state, path_to_state, k + 1, tests)
             ELSE LogicInputsVerifySource(M, target_state, path_to_state, k + 1,
                      Append(tests,
                          TestCase(<<"Logic Verify", target_state, input, nxt>>,
                                   path_to_state,
                                   input,
                                   OkFlatten(execute_phi(phi, initial_store, input)),
                                   distinguishing_sequences(target_state))))

\* the store a setup leaves behind when its routed phis are run in turn
RECURSIVE SetupStore(_, _, _, _)
SetupStore(M, state, mem, path) ==
    IF path = <<>> THEN mem
    ELSE LET phi == get_phi_for_input(M, state, Head(path))
             r   == execute_phi(phi, mem, Head(path))
         IN  SetupStore(M, next_state(M, state, phi),
                        IF r.ok THEN r.mem ELSE mem, Tail(path))

\* variant: the expected output is computed on the store the setup leaves
RECURSIVE LogicInputsSetupStore(_, _, _, _, _)
LogicInputsSetupStore(M, target_state, path_to_state, k, tests) ==
    IF k > Len(all_inputs) THEN tests
    ELSE LET input == all_inputs[k]
             phi   == get_phi_for_input(M, target_state, input)
             nxt   == IF phi = NoPhi THEN NoState
                      ELSE next_state(M, target_state, phi)
             dummy_mem == SetupStore(M, Head(initial_states(M)), initial_store,
                                     path_to_state)
         IN  IF nxt = NoState
             THEN LogicInputsSetupStore(M, target_state, path_to_state, k + 1, tests)
             ELSE LogicInputsSetupStore(M, target_state, path_to_state, k + 1,
                      Append(tests,
                          TestCase(<<"Logic Verify", target_state, input, nxt>>,
                                   path_to_state,
                                   input,
                                   OkFlatten(execute_phi(phi, dummy_mem, input)),
                                   distinguishing_sequences(nxt))))

\* variant: a test is pushed at the front of the suite
RECURSIVE LogicInputsPushFront(_, _, _, _, _)
LogicInputsPushFront(M, target_state, path_to_state, k, tests) ==
    IF k > Len(all_inputs) THEN tests
    ELSE LET input == all_inputs[k]
             phi   == get_phi_for_input(M, target_state, input)
             nxt   == IF phi = NoPhi THEN NoState
                      ELSE next_state(M, target_state, phi)
         IN  IF nxt = NoState
             THEN LogicInputsPushFront(M, target_state, path_to_state, k + 1, tests)
             ELSE LogicInputsPushFront(M, target_state, path_to_state, k + 1,
                      <<TestCase(<<"Logic Verify", target_state, input, nxt>>,
                                 path_to_state,
                                 input,
                                 OkFlatten(execute_phi(phi, initial_store, input)),
                                 distinguishing_sequences(nxt))>> \o tests)

\* generate_logic_tests, the loop over all_inputs for one reached state
RECURSIVE LogicInputs(_, _, _, _, _)
LogicInputs(M, target_state, path_to_state, k, tests) ==
    IF k > Len(all_inputs) THEN tests
    ELSE LET input == all_inputs[k]
             phi   == get_phi_for_input(M, target_state, input)
             nxt   == IF phi = NoPhi THEN NoState
                      ELSE next_state(M, target_state, phi)
         IN  IF nxt = NoState
             THEN LogicInputs(M, target_state, path_to_state, k + 1, tests)
             ELSE LogicInputs(M, target_state, path_to_state, k + 1,
                      Append(tests,
                          TestCase(<<"Logic Verify", target_state, input, nxt>>,
                                   path_to_state,
                                   input,
                                   OkFlatten(execute_phi(phi, initial_store, input)),
                                   distinguishing_sequences(nxt))))

\* variant: the loop stops at the first input that has a routed phi
RECURSIVE RobustInputsBreak(_, _, _, _, _)
RobustInputsBreak(M, state, path, k, tests) ==
    IF k > Len(all_inputs) THEN tests
    ELSE LET input == all_inputs[k]
             is_defined == get_phi_for_input(M, state, input) # NoPhi
         IN  IF ~is_defined
             THEN RobustInputsBreak(M, state, path, k + 1,
                      Append(tests,
                          TestCase(<<"Robustness", state, input>>,
                                   path, input, NoOutput, <<>>)))
             ELSE tests

\* variant: the rejection test is pushed for a routed input as well
RECURSIVE RobustInputsAll(_, _, _, _, _)
RobustInputsAll(M, state, path, k, tests) ==
    IF k > Len(all_inputs) THEN tests
    ELSE RobustInputsAll(M, state, path, k + 1,
             Append(tests,
                 TestCase(<<"Robustness", state, all_inputs[k]>>,
                          path, all_inputs[k], NoOutput, <<>>)))

\* generate_robustness_tests, the loop over all_inputs for one reached state
RECURSIVE RobustInputs(_, _, _, _, _)
RobustInputs(M, state, path, k, tests) ==
    IF k > Len(all_inputs) THEN tests
    ELSE LET input == all_inputs[k]
             is_defined == get_phi_for_input(M, state, input) # NoPhi
         IN  IF ~is_defined
             THEN RobustInputs(M, state, path, k + 1,
                      Append(tests,
                          TestCase(<<"Robustness", state, input>>,
                                   path, input, NoOutput, <<>>)))
             ELSE RobustInputs(M, state, path, k + 1, tests)

\* variant: the expected output is computed on a fresh store, as the logic
\* generator does
PhiTestFreshStore(M, start_state, input, target_phi, setup_path, resulting_memory) ==
    TestCase(<<"Phi Verify", target_phi, setup_path>>,
             setup_path,
             input,
             OkFlatten(execute_phi(target_phi, initial_store, input)),
             distinguishing_sequences(next_state(M, start_state, target_phi)))

\* generate_phi_coverage_tests, the test built from a witness
PhiTest(M, start_state, input, target_phi, setup_path, resulting_memory) ==
    TestCase(<<"Phi Verify", target_phi, setup_path>>,
             setup_path,
             input,
             OkFlatten(execute_phi(target_phi, Clone(resulting_memory), input)),
             distinguishing_sequences(next_state(M, start_state, target_phi)))

(*************************************************************************)
(* The program: the three generators called in turn on one machine.      *)
(*************************************************************************)
VARIABLES
    m,             \* the machine under test
    pc,            \* where the program is
    si,            \* position of the loop over all_states
    ii,            \* position of the loop over all_inputs (phi coverage)
    plain,         \* the running find_path_to_state
    sat,           \* the running find_path_to_satisfy_phi
    logic_tests,   \* tests of generate_logic_tests
    robust_tests,  \* tests of generate_robustness_tests
    phi_tests,     \* tests of generate_phi_coverage_tests
    warnings,      \* the warnings generate_phi_coverage_tests printed
    phi_pairs,     \* history: the (state, input) of each phi coverage test
    enqueued,      \* history: every state find_path_to_state pushed on its queue
    system,        \* the SecureDoorSystem of the example
    fed,           \* history: the inputs process_input was called with
    printed,       \* history: what the last process_input printed
    probe          \* a shipped machine under direct calls of its contract

\* the variables of the generators' program
genVars == <<m, pc, si, ii, plain, sat, logic_tests, robust_tests, phi_tests,
             warnings, phi_pairs, enqueued>>

\* the variables of the example's composed system
doorVars == <<system, fed, printed>>

vars == <<genVars, doorVars, probe>>

\* the value of a variable the running program does not use
Unused == <<>>

IdlePlain ==
    [ target |-> NoState, queue |-> <<>>, visited |-> <<>>,
      done |-> TRUE, found |-> FALSE, path |-> <<>> ]

IdleSat ==
    [ target_state |-> NoState, target_phi |-> NoPhi, trigger_input |-> 1,
      queue |-> <<>>, done |-> TRUE, found |-> FALSE, path |-> <<>>,
      mem |-> initial_store ]

Init ==
    /\ m \in Machines
    /\ pc = "logic"
    /\ si = 1
    /\ ii = 1
    /\ plain = IdlePlain
    /\ sat = IdleSat
    /\ logic_tests = <<>>
    /\ robust_tests = <<>>
    /\ phi_tests = <<>>
    /\ warnings = <<>>
    /\ phi_pairs = <<>>
    /\ enqueued = <<>>
    /\ system = Unused
    /\ fed = Unused
    /\ printed = Unused
    /\ probe = Unused

\* the states a search step pushed on the queue
Pushed(before, after) ==
    [k \in 1..(Len(after) - Len(before)) |-> after[Len(before) + k].state]

\* generate_logic_tests: the next target_state, find_path_to_state called
LogicBegin ==
    /\ pc = "logic"
    /\ si <= Len(all_states)
    /\ plain' = PlainStart(m, all_states[si])
    /\ enqueued' = Pushed(<<>>, plain'.queue)
    /\ pc' = "logic_search"
    /\ UNCHANGED <<doorVars, probe, m, si, ii, sat, logic_tests, robust_tests, phi_tests,
                   warnings, phi_pairs>>

\* find_path_to_state: one iteration of its while loop
PlainSearchStep ==
    /\ pc \in {"logic_search", "robust_search"}
    /\ ~plain.done
    /\ plain' = PlainStep(m, plain)
    /\ enqueued' = enqueued \o
           (IF plain.queue = <<>> THEN <<>>
            ELSE Pushed(Tail(plain.queue), plain'.queue))
    /\ UNCHANGED <<doorVars, probe, m, pc, si, ii, sat, logic_tests, robust_tests, phi_tests,
                   warnings, phi_pairs>>

\* generate_logic_tests: the search returned, the tests of target_state pushed
LogicEmit ==
    /\ pc = "logic_search"
    /\ plain.done
    /\ logic_tests' =
           IF plain.found
           THEN LogicInputs(m, all_states[si], plain.path, 1, logic_tests)
           ELSE logic_tests
    /\ si' = si + 1
    /\ pc' = "logic"
    /\ UNCHANGED <<doorVars, probe, m, ii, plain, sat, robust_tests, phi_tests, warnings,
                   phi_pairs, enqueued>>

\* generate_logic_tests returns; generate_robustness_tests is called
LogicReturn ==
    /\ pc = "logic"
    /\ si > Len(all_states)
    /\ pc' = "robust"
    /\ si' = 1
    /\ plain' = IdlePlain
    /\ enqueued' = <<>>
    /\ UNCHANGED <<doorVars, probe, m, ii, sat, logic_tests, robust_tests, phi_tests, warnings,
                   phi_pairs>>

\* generate_robustness_tests: the next state, find_path_to_state called
RobustBegin ==
    /\ pc = "robust"
    /\ si <= Len(all_states)
    /\ plain' = PlainStart(m, all_states[si])
    /\ enqueued' = Pushed(<<>>, plain'.queue)
    /\ pc' = "robust_search"
    /\ UNCHANGED <<doorVars, probe, m, si, ii, sat, logic_tests, robust_tests, phi_tests,
                   warnings, phi_pairs>>

\* generate_robustness_tests: the search returned, the tests of state pushed
RobustEmit ==
    /\ pc = "robust_search"
    /\ plain.done
    /\ robust_tests' =
           IF plain.found
           THEN RobustInputs(m, all_states[si], plain.path, 1, robust_tests)
           ELSE robust_tests
    /\ si' = si + 1
    /\ pc' = "robust"
    /\ UNCHANGED <<doorVars, probe, m, ii, plain, sat, logic_tests, phi_tests, warnings,
                   phi_pairs, enqueued>>

\* generate_robustness_tests returns; generate_phi_coverage_tests is called
RobustReturn ==
    /\ pc = "robust"
    /\ si > Len(all_states)
    /\ pc' = "phi"
    /\ si' = 1
    /\ ii' = 1
    /\ plain' = IdlePlain
    /\ enqueued' = <<>>
    /\ UNCHANGED <<doorVars, probe, m, sat, logic_tests, robust_tests, phi_tests, warnings,
                   phi_pairs>>

\* the two nested for loops of generate_phi_coverage_tests move on
PhiAdvance ==
    IF ii < Len(all_inputs)
    THEN /\ ii' = ii + 1
         /\ si' = si
    ELSE /\ ii' = 1
         /\ si' = si + 1

\* generate_phi_coverage_tests: an input with no routed phi is passed over
PhiSkip ==
    /\ pc = "phi"
    /\ si <= Len(all_states)
    /\ get_phi_for_input(m, all_states[si], all_inputs[ii]) = NoPhi
    /\ PhiAdvance
    /\ UNCHANGED <<doorVars, probe, m, pc, plain, sat, logic_tests, robust_tests, phi_tests,
                   warnings, phi_pairs, enqueued>>

\* generate_phi_coverage_tests: find_path_to_satisfy_phi called for a routed pair
PhiBegin ==
    /\ pc = "phi"
    /\ si <= Len(all_states)
    /\ get_phi_for_input(m, all_states[si], all_inputs[ii]) # NoPhi
    /\ sat' = SatStart(m, all_states[si],
                       get_phi_for_input(m, all_states[si], all_inputs[ii]),
                       all_inputs[ii])
    /\ pc' = "phi_search"
    /\ UNCHANGED <<doorVars, probe, m, si, ii, plain, logic_tests, robust_tests, phi_tests,
                   warnings, phi_pairs, enqueued>>

\* find_path_to_satisfy_phi: one iteration of its while loop
SatSearchStep ==
    /\ pc = "phi_search"
    /\ ~sat.done
    /\ sat' = SatStep(m, sat)
    /\ UNCHANGED <<doorVars, probe, m, pc, si, ii, plain, logic_tests, robust_tests, phi_tests,
                   warnings, phi_pairs, enqueued>>

\* generate_phi_coverage_tests: a witness came back and the test is pushed
PhiEmit ==
    /\ pc = "phi_search"
    /\ sat.done
    /\ sat.found
    /\ next_state(m, all_states[si], sat.target_phi) # NoState
    /\ phi_tests' = Append(phi_tests,
           PhiTest(m, all_states[si], all_inputs[ii], sat.target_phi,
                   sat.path, sat.mem))
    /\ phi_pairs' = Append(phi_pairs, <<all_states[si], all_inputs[ii]>>)
    /\ PhiAdvance
    /\ pc' = "phi"
    /\ UNCHANGED <<doorVars, probe, m, plain, sat, logic_tests, robust_tests, warnings, enqueued>>

\* generate_phi_coverage_tests: a witness came back, next_state(..).unwrap()
\* is called on None and the program panics
PhiPanic ==
    /\ pc = "phi_search"
    /\ sat.done
    /\ sat.found
    /\ next_state(m, all_states[si], sat.target_phi) = NoState
    /\ pc' = "panicked"
    /\ UNCHANGED <<doorVars, probe, m, si, ii, plain, sat, logic_tests, robust_tests, phi_tests,
                   warnings, phi_pairs, enqueued>>

\* generate_phi_coverage_tests: no witness, the warning is printed
PhiWarn ==
    /\ pc = "phi_search"
    /\ sat.done
    /\ ~sat.found
    /\ warnings' = Append(warnings, <<sat.target_phi, all_states[si]>>)
    /\ PhiAdvance
    /\ pc' = "phi"
    /\ UNCHANGED <<doorVars, probe, m, plain, sat, logic_tests, robust_tests, phi_tests,
                   phi_pairs, enqueued>>

\* generate_phi_coverage_tests returns its tests
PhiReturn ==
    /\ pc = "phi"
    /\ si > Len(all_states)
    /\ pc' = "done"
    /\ sat' = IdleSat
    /\ UNCHANGED <<doorVars, probe, m, si, ii, plain, logic_tests, robust_tests, phi_tests,
                   warnings, phi_pairs, enqueued>>

Next ==
    \/ LogicBegin
    \/ PlainSearchStep
    \/ LogicEmit
    \/ LogicReturn
    \/ RobustBegin
    \/ RobustEmit
    \/ RobustReturn
    \/ PhiSkip
    \/ PhiBegin
    \/ SatSearchStep
    \/ PhiEmit
    \/ PhiPanic
    \/ PhiWarn
    \/ PhiReturn

Spec == Init /\ [][Next]_vars

\* the program is one sequential thread: a step that can be taken is taken
FairSpec == Spec /\ WF_vars(Next)

(*************************************************************************)
(* Reference notions the claims are stated with.  None of them is taken  *)
(* from the searches: they say what a path does when it is replayed.     *)
(*************************************************************************)
\* the (state, input) pairs the generators' loops go through
AllPairs == { <<s, i>> : s \in States, i \in Inputs }

Routed(M, s, i) == get_phi_for_input(M, s, i) # NoPhi

\* routing and transition agree on the pair
Arrow(M, s, i) ==
    /\ Routed(M, s, i)
    /\ next_state(M, s, get_phi_for_input(M, s, i)) # NoState

\* the state a path leads to from `state`, guards ignored (NoState: it breaks off)
RECURSIVE PlainReplay(_, _, _)
PlainReplay(M, state, path) ==
    IF path = <<>> THEN state
    ELSE IF state = NoState \/ ~Arrow(M, state, Head(path)) THEN NoState
    ELSE PlainReplay(M,
             next_state(M, state, get_phi_for_input(M, state, Head(path))),
             Tail(path))

InitialSet(M) == { initial_states(M)[k] : k \in DOMAIN initial_states(M) }

\* some initial state is led to `target` by `path`, guards ignored
PlainLeads(M, path, target) ==
    \E start \in InitialSet(M) : PlainReplay(M, start, path) = target

InputSeqs(n) == [1..n -> Inputs]

\* `target` is reachable from an initial state by arrows
Reachable(M, target) ==
    \E n \in 0..NStates : \E path \in InputSeqs(n) : PlainLeads(M, path, target)

\* a path replayed on a configuration under routed, guarded execution
RECURSIVE Replay(_, _, _, _)
Replay(M, state, mem, path) ==
    IF path = <<>> THEN [ok |-> TRUE, state |-> state, mem |-> mem]
    ELSE IF ~Arrow(M, state, Head(path))
         THEN [ok |-> FALSE, state |-> state, mem |-> mem]
         ELSE LET phi == get_phi_for_input(M, state, Head(path))
                  r   == execute_phi(phi, mem, Head(path))
              IN  IF ~r.ok THEN [ok |-> FALSE, state |-> state, mem |-> mem]
                  ELSE Replay(M, next_state(M, state, phi), r.mem, Tail(path))

\* the configurations one guarded step away from a configuration of C
CfgStep(M, C) ==
    UNION { { <<next_state(M, c[1], get_phi_for_input(M, c[1], i)),
                execute_phi(get_phi_for_input(M, c[1], i), c[2], i).mem>> :
              i \in { j \in Inputs :
                        /\ Arrow(M, c[1], j)
                        /\ execute_phi(get_phi_for_input(M, c[1], j), c[2], j).ok } } :
            c \in C }

\* the configurations exactly k guarded steps away from an initial configuration
RECURSIVE CfgAt(_, _)
CfgAt(M, k) ==
    IF k = 0 THEN { <<s, initial_store>> : s \in InitialSet(M) }
    ELSE CfgStep(M, CfgAt(M, k - 1))

\* target_phi accepts trigger_input in target_state on a configuration of C
Accepting(C, target_state, target_phi, trigger_input) ==
    \E c \in C : /\ c[1] = target_state
                 /\ execute_phi(target_phi, c[2], trigger_input).ok

\* ... on a configuration at most `steps` guarded steps away from those of C
RECURSIVE AcceptingWithin(_, _, _, _, _, _)
AcceptingWithin(M, C, steps, target_state, target_phi, trigger_input) ==
    \/ Accepting(C, target_state, target_phi, trigger_input)
    \/ /\ steps > 0
       /\ C # {}
       /\ AcceptingWithin(M, CfgStep(M, C), steps - 1,
                          target_state, target_phi, trigger_input)

\* a configuration in target_state on which target_phi accepts trigger_input
\* lies within max_depth guarded steps of an initial configuration
HasWitness(M, target_state, target_phi, trigger_input) ==
    AcceptingWithin(M, CfgAt(M, 0), max_depth,
                    target_state, target_phi, trigger_input)

\* find_path_to_state run to its end (its loop ends within NStates + 1 rounds)
RECURSIVE PlainRun(_, _, _)
PlainRun(M, p, fuel) ==
    IF p.done \/ fuel = 0 THEN p ELSE PlainRun(M, PlainStep(M, p), fuel - 1)

find_path_to_state(M, target) == PlainRun(M, PlainStart(M, target), NStates + 1)

(*************************************************************************)
(* The claims.                                                           *)
(*************************************************************************)
PlainReturned == pc \in {"logic_search", "robust_search"} /\ plain.done

SatReturned == pc = "phi_search" /\ sat.done

\* C1: whenever find_path_to_satisfy_phi returns (path, memory), replaying path
\* from some initial state with initial_store under routed, guarded execution
\* succeeds at every step, ends in target_state with exactly the returned
\* memory, and target_phi accepts trigger_input on that memory (the memory is
\* the one before the trigger is applied).
C1_GuardAwareSearchSound ==
    (SatReturned /\ sat.found) =>
        \E start \in InitialSet(m) :
            LET r == Replay(m, start, initial_store, sat.path)
            IN  /\ r.ok
                /\ r.state = sat.target_state
                /\ r.mem = sat.mem
                /\ execute_phi(sat.target_phi, sat.mem, sat.trigger_input).ok

\* a witness came back for a phi that writes the memory, after a setup that
\* had to write it too
C1_Witness ==
    /\ SatReturned
    /\ sat.found
    /\ sat.target_phi = "Inc"
    /\ Len(sat.path) >= 2
    /\ sat.mem > initial_store

\* C2: for a target reachable from an initial state by arrows, find_path_to_state
\* returns a path that leads from some initial state to the target, no strictly
\* shorter input sequence leads from any initial state to it, and a target that
\* is an initial state gets the empty path.
C2_PlainSearchMinimal ==
    (PlainReturned /\ Reachable(m, plain.target)) =>
        /\ plain.found
        /\ PlainLeads(m, plain.path, plain.target)
        /\ \A n \in 0..(Len(plain.path) - 1) : \A shorter \in InputSeqs(n) :
               ~PlainLeads(m, shorter, plain.target)
        /\ (plain.target \in InitialSet(m) => plain.path = <<>>)

\* a path of two inputs came back while a longer sequence leads to the target too
C2_Witness ==
    /\ PlainReturned
    /\ plain.found
    /\ Len(plain.path) = 2
    /\ \E longer \in InputSeqs(3) : PlainLeads(m, longer, plain.target)

\* generate_logic_tests has just returned its tests
LogicReturned == pc = "robust" /\ si = 1

\* generate_robustness_tests has just returned its tests
RobustReturned == pc = "phi" /\ si = 1 /\ ii = 1

\* generate_phi_coverage_tests has returned, or has panicked

PhiEnded == pc \in {"done", "panicked"}

\* the tests of a suite that are about the pair (s, i); the logic and the
\* robustness tests carry the state under test in their name
TestsOf(tests, s, i) ==
    { k \in DOMAIN tests : tests[k].name[2] = s /\ tests[k].test_input = i }

\* C3: every test generate_phi_coverage_tests emits for a pair (s, i) has a
\* setup_sequence whose replay from an initial configuration, under routed and
\* guarded execution, reaches s; the routed phi then accepts i on the resulting
\* memory and produces exactly expected_output; and verification_sequence is
\* distinguish(next_state(s, phi)).
C3_PhiCoverageGuardAccurate ==
    \A k \in DOMAIN phi_tests :
        LET s   == phi_pairs[k][1]
            i   == phi_pairs[k][2]
            phi == get_phi_for_input(m, s, i)
            t   == phi_tests[k]
        IN  /\ phi # NoPhi
            /\ t.test_input = i
            /\ t.verification_sequence =
                   distinguishing_sequences(next_state(m, s, phi))
            /\ \E start \in InitialSet(m) :
                   LET r == Replay(m, start, initial_store, t.setup_sequence)
                   IN  /\ r.ok
                       /\ r.state = s
                       /\ execute_phi(phi, r.mem, i).ok
                       /\ OkFlatten(execute_phi(phi, r.mem, i)) = t.expected_output

\* a test whose expected output is not the one a fresh store gives
C3_Witness ==
    \E k \in DOMAIN phi_tests :
        /\ phi_tests[k].setup_sequence # <<>>
        /\ phi_tests[k].expected_output #
               OkFlatten(execute_phi(get_phi_for_input(m, phi_pairs[k][1], phi_pairs[k][2]),
                                     initial_store, phi_pairs[k][2]))

\* C4: generate_logic_tests emits exactly one test for each pair (s, i) with s
\* reachable, get_phi_for_input(s, i) = Some(phi) and next_state(s, phi) =
\* Some(s'), and none for any other pair; the test has the plain-search path to
\* s as setup_sequence, i as test_input and distinguish(s') as
\* verification_sequence.
C4_LogicCoverage ==
    LogicReturned =>
        \A s \in States, i \in Inputs :
            /\ Cardinality(TestsOf(logic_tests, s, i)) =
                   IF Reachable(m, s) /\ Arrow(m, s, i) THEN 1 ELSE 0
            /\ \A k \in TestsOf(logic_tests, s, i) :
                   /\ logic_tests[k].setup_sequence = find_path_to_state(m, s).path
                   /\ logic_tests[k].verification_sequence =
                          distinguishing_sequences(
                              next_state(m, s, get_phi_for_input(m, s, i)))

\* the suite holds a test with a setup of two inputs, while the machine also has
\* an unreachable state with an arrow and a reachable pair routed to nowhere
C4_Witness ==
    /\ LogicReturned
    /\ \E k \in DOMAIN logic_tests : Len(logic_tests[k].setup_sequence) = 2
    /\ \E s \in States, i \in Inputs : ~Reachable(m, s) /\ Arrow(m, s, i)
    /\ \E s \in States, i \in Inputs :
           Reachable(m, s) /\ Routed(m, s, i) /\ ~Arrow(m, s, i)

\* C5 as claimed: for every state s of all_states and every input i with
\* get_phi_for_input(s, i) = None, generate_robustness_tests emits a test with
\* test_input i, no expected output and an empty verification_sequence, and it
\* emits no test for a pair whose routing is defined.
C5_RobustnessEveryState ==
    RobustReturned =>
        \A s \in States, i \in Inputs :
            /\ ~Routed(m, s, i) =>
                   \E k \in TestsOf(robust_tests, s, i) :
                       /\ robust_tests[k].expected_output = NoOutput
                       /\ robust_tests[k].verification_sequence = <<>>
            /\ Routed(m, s, i) => TestsOf(robust_tests, s, i) = {}

\* C5 as amended: the same, for every state s that find_path_to_state reaches
\* (a state it does not reach gets no test at all).
C5_RobustnessReachedStates ==
    RobustReturned =>
        \A s \in States, i \in Inputs :
            /\ (Reachable(m, s) /\ ~Routed(m, s, i)) =>
                   \E k \in TestsOf(robust_tests, s, i) :
                       /\ robust_tests[k].expected_output = NoOutput
                       /\ robust_tests[k].verification_sequence = <<>>
            /\ (Routed(m, s, i) \/ ~Reachable(m, s)) =>
                   TestsOf(robust_tests, s, i) = {}

\* a rejection test for a state reached by a setup that is not empty, in a
\* machine that also has an unreachable state with an input that is not routed
C5_Witness ==
    /\ RobustReturned
    /\ \E k \in DOMAIN robust_tests : robust_tests[k].setup_sequence # <<>>
    /\ \E s \in States, i \in Inputs : ~Reachable(m, s) /\ ~Routed(m, s, i)

\* C6: on a machine whose routing and transition disagree on some pair, the
\* three generators still run to completion and return their tests: the
\* program never panics.
C6_NeverPanics == pc # "panicked"

\* C7: every node find_path_to_satisfy_phi puts on its queue carries a path of
\* at most max_depth inputs, and so does the path it returns; a node whose path
\* has max_depth inputs is still tested against the target (it is returned when
\* the target phi accepts on it) but is never expanded.
C7_DepthBound ==
    /\ [](\A k \in DOMAIN sat.queue : Len(sat.queue[k].path) <= max_depth)
    /\ [](Len(sat.path) <= max_depth)
    /\ [][ (/\ pc = "phi_search"
            /\ ~sat.done
            /\ sat.queue # <<>>
            /\ Len(Head(sat.queue).path) = max_depth)
           => /\ sat'.queue = Tail(sat.queue)
              /\ sat'.found =
                     (/\ Head(sat.queue).state = sat.target_state
                      /\ execute_phi(sat.target_phi, Head(sat.queue).mem,
                                     sat.trigger_input).ok) ]_vars

\* a node with a path of max_depth inputs is on the queue
C7_Witness ==
    /\ pc = "phi_search"
    /\ \E k \in DOMAIN sat.queue : Len(sat.queue[k].path) = max_depth

\* C8: find_path_to_satisfy_phi terminates; when no configuration within
\* max_depth guarded steps satisfies the target it ends with its queue empty
\* and returns None, also on machines with cycles whose guards always pass.
C8_GuardAwareSearchTerminates ==
    /\ (pc = "phi_search") ~> SatReturned
    /\ [](( /\ SatReturned
            /\ ~HasWitness(m, sat.target_state, sat.target_phi, sat.trigger_input))
          => (~sat.found /\ sat.queue = <<>>))

\* the search came back with None on a machine that has guarded paths of
\* max_depth inputs, that is, a cycle whose guards keep passing
C8_Witness ==
    /\ SatReturned
    /\ ~sat.found
    /\ sat.queue = <<>>
    /\ CfgAt(m, max_depth) # {}

NoDuplicates(seq) == \A j, k \in DOMAIN seq : seq[j] = seq[k] => j = k

\* C9: for a target that no initial state reaches by arrows, find_path_to_state
\* terminates and returns None, cycles and self-loops included; in every search
\* each state is pushed on the queue at most once.
C9_PlainSearchUnreachable ==
    /\ (pc \in {"logic_search", "robust_search"}) ~> PlainReturned
    /\ []((PlainReturned /\ ~Reachable(m, plain.target)) => ~plain.found)
    /\ [](NoDuplicates(enqueued))

\* None came back after a search that went round a cycle: some visited state
\* has an arrow to a visited state
C9_Witness ==
    /\ PlainReturned
    /\ ~plain.found
    /\ Len(plain.visited) >= 2
    /\ \E j, k \in DOMAIN plain.visited : \E i \in Inputs :
           PlainReplay(m, plain.visited[j], <<i>>) = plain.visited[k]

\* the routed pairs generate_phi_coverage_tests goes through
RoutedPairs(M) == { p \in AllPairs : Routed(M, p[1], p[2]) }

\* C10: once find_path_to_satisfy_phi has returned None for a routed pair,
\* generate_phi_coverage_tests still goes through every remaining pair and
\* returns normally; a routed pair with no witness gets no test and is reported
\* exactly once, a routed pair with a witness gets exactly one test, and the
\* tests and the reported gaps together number the routed pairs.
C10_GapsAccounted ==
    (PhiEnded /\ warnings # <<>>) =>
        /\ pc = "done"
        /\ Len(phi_tests) + Len(warnings) = Cardinality(RoutedPairs(m))
        /\ \A p \in RoutedPairs(m) :
               LET phi == get_phi_for_input(m, p[1], p[2])
                   tests == {k \in DOMAIN phi_pairs : phi_pairs[k] = p}
                   gaps  == {k \in DOMAIN warnings : warnings[k] = <<phi, p[1]>>}
               IN  IF HasWitness(m, p[1], phi, p[2])
                   THEN Cardinality(tests) = 1
                   ELSE tests = {} /\ gaps # {}

\* the position of x in an enumeration
IndexOf(seq, x) == CHOOSE k \in DOMAIN seq : seq[k] = x

\* the pair p comes before the pair q: by all_states order, and within a state
\* by all_inputs order
PairBefore(p, q) ==
    \/ IndexOf(all_states, p[1]) < IndexOf(all_states, q[1])
    \/ /\ p[1] = q[1]
       /\ IndexOf(all_inputs, p[2]) < IndexOf(all_inputs, q[2])

\* the (state under test, test_input) of each test of a logic or robustness suite
PairsOf(tests) == [k \in DOMAIN tests |-> <<tests[k].name[2], tests[k].test_input>>]

SuiteOrdered(pairs) ==
    \A j, k \in DOMAIN pairs : j < k => PairBefore(pairs[j], pairs[k])

\* the steps of the program that can be taken next
EnabledSteps ==
    { a \in 1..14 :
        CASE a = 1  -> ENABLED LogicBegin
          [] a = 2  -> ENABLED PlainSearchStep
          [] a = 3  -> ENABLED LogicEmit
          [] a = 4  -> ENABLED LogicReturn
          [] a = 5  -> ENABLED RobustBegin
          [] a = 6  -> ENABLED RobustEmit
          [] a = 7  -> ENABLED RobustReturn
          [] a = 8  -> ENABLED PhiSkip
          [] a = 9  -> ENABLED PhiBegin
          [] a = 10 -> ENABLED SatSearchStep
          [] a = 11 -> ENABLED PhiEmit
          [] a = 12 -> ENABLED PhiPanic
          [] a = 13 -> ENABLED PhiWarn
          [] a = 14 -> ENABLED PhiReturn }

C14_LogicExpectedOnFreshStore ==
    \A k \in DOMAIN logic_tests :
        LET t   == logic_tests[k]
            phi == get_phi_for_input(m, t.name[2], t.test_input)
            r   == execute_phi(phi, initial_store, t.test_input)
        IN  /\ phi # NoPhi
            /\ r.ok => t.expected_output = r.out
            /\ ~r.ok => t.expected_output = NoOutput

\* a logic test whose setup replays to the state under test and whose expected
\* output is not the output the routed phi gives on the memory of that replay;
\* and one whose expected output is None because the fresh store is rejected
C14_Witness ==
    /\ \E k \in DOMAIN logic_tests : \E start \in InitialSet(m) :
           LET t   == logic_tests[k]
               phi == get_phi_for_input(m, t.name[2], t.test_input)
               r   == Replay(m, start, initial_store, t.setup_sequence)
           IN  /\ r.ok
               /\ r.state = t.name[2]
               /\ execute_phi(phi, r.mem, t.test_input).ok
               /\ execute_phi(phi, r.mem, t.test_input).out # t.expected_output
    /\ \E k \in DOMAIN logic_tests :
           LET t   == logic_tests[k]
               phi == get_phi_for_input(m, t.name[2], t.test_input)
           IN  /\ ~execute_phi(phi, initial_store, t.test_input).ok
               /\ t.expected_output = NoOutput

\* the setup_sequence of a test replays, from some initial state with
\* initial_store under routed, guarded execution, to the state under test
SetupReaches(M, t) ==
    \E start \in InitialSet(M) :
        LET r == Replay(M, start, initial_store, t.setup_sequence)
        IN  r.ok /\ r.state = t.name[2]

\* C15: for every test of generate_logic_tests and generate_robustness_tests
\* for a state s, replaying setup_sequence from an initial state with
\* initial_store(), each input through its routed phi and its guard, succeeds
\* at every step and leaves the machine in s.
C15_SetupReachesState ==
    /\ \A k \in DOMAIN logic_tests : SetupReaches(m, logic_tests[k])
    /\ \A k \in DOMAIN robust_tests : SetupReaches(m, robust_tests[k])

(*************************************************************************)
(* The machines of the example (examples/secure_door.rs): Digicode and   *)
(* Door.  An enum value is a string, except a state, which is a number   *)
(* from 1 (NoState is 0), and Digicode's inputs, which are tuples.       *)
(*************************************************************************)
\* bound on the counters of Door and LightSwitch (u32 in the code)
MaxCount == 3

DigicodeState_Ready == 1

DigicodeState_Accepting == 2

DigicodeState_CodeEntered == 3

\* DigicodeInputAlphabet
OkEnter == <<"OkEnter">>

DoorCloses == <<"DoorCloses">>

Digit(d) == <<"Digit", d>>

IsDigit(input) == input[1] = "Digit"

\* DigicodeOutputAlphabet::Digit(d)
OutDigit(d) ==
    <<"Digit(0)", "Digit(1)", "Digit(2)", "Digit(3)", "Digit(4)",
      "Digit(5)", "Digit(6)", "Digit(7)", "Digit(8)", "Digit(9)">>[d + 1]

\* variant: the arm (Accepting, Finish) is missing
Digicode_next_state_NoFinish(state, phi) ==
    CASE state = DigicodeState_Ready /\ phi = "InputDigit" -> DigicodeState_Accepting
      [] state = DigicodeState_Ready /\ phi = "Reject" -> DigicodeState_Ready
      [] state = DigicodeState_Accepting /\ phi = "InputDigit" -> DigicodeState_Accepting
      [] state = DigicodeState_Accepting /\ phi = "Reject" -> DigicodeState_Ready
      [] state = DigicodeState_Accepting /\ phi = "Ignore" -> DigicodeState_Accepting
      [] state = DigicodeState_CodeEntered /\ phi = "Lock" -> DigicodeState_Ready
      [] OTHER -> NoState

Digicode_next_state(state, phi) ==
    CASE state = DigicodeState_Ready /\ phi = "InputDigit" -> DigicodeState_Accepting
      [] state = DigicodeState_Ready /\ phi = "Reject" -> DigicodeState_Ready
      [] state = DigicodeState_Accepting /\ phi = "InputDigit" -> DigicodeState_Accepting
      [] state = DigicodeState_Accepting /\ phi = "Finish" -> DigicodeState_CodeEntered
      [] state = DigicodeState_Accepting /\ phi = "Reject" -> DigicodeState_Ready
      [] state = DigicodeState_Accepting /\ phi = "Ignore" -> DigicodeState_Accepting
      [] state = DigicodeState_CodeEntered /\ phi = "Lock" -> DigicodeState_Ready
      [] OTHER -> NoState

Digicode_initial_states == <<DigicodeState_Ready>>

Digicode_initial_store == [current_sequence |-> <<>>, valid_code |-> <<4, 9, 2>>]

\* variant: InputDigit pushes the digit before it tests the length
Digicode_execute_phi_PushFirst(phi, store, input) ==
    CASE phi = "Reject" /\ input = OkEnter ->
            IF store.current_sequence # store.valid_code
            THEN Ok([store EXCEPT !.current_sequence = <<>>], "RejectInput")
            ELSE Err(store)
      [] phi = "InputDigit" /\ IsDigit(input) ->
            LET pushed == [store EXCEPT !.current_sequence = Append(@, input[2])]
            IN  IF Len(pushed.current_sequence) <= Len(store.valid_code)
                THEN Ok(pushed, OutDigit(input[2]))
                ELSE Err(pushed)
      [] phi = "Ignore" /\ IsDigit(input) ->
            IF Len(store.current_sequence) = Len(store.valid_code)
            THEN Ok(store, "IgnoreDigit")
            ELSE Err(store)
      [] phi = "Finish" /\ input = OkEnter ->
            IF store.current_sequence = store.valid_code
            THEN Ok(store, "Open")
            ELSE Err(store)
      [] phi = "Lock" /\ input = DoorCloses ->
            Ok([store EXCEPT !.current_sequence = <<>>], "Initialise")
      [] OTHER -> Err(store)

\* variant: Reject leaves the accumulated sequence as it is
Digicode_execute_phi_RejectKeeps(phi, store, input) ==
    CASE phi = "Reject" /\ input = OkEnter ->
            IF store.current_sequence # store.valid_code
            THEN Ok(store, "RejectInput")
            ELSE Err(store)
      [] phi = "InputDigit" /\ IsDigit(input) ->
            IF Len(store.current_sequence) < Len(store.valid_code)
            THEN Ok([store EXCEPT !.current_sequence = Append(@, input[2])],
                    OutDigit(input[2]))
            ELSE Err(store)
      [] phi = "Ignore" /\ IsDigit(input) ->
            IF Len(store.current_sequence) = Len(store.valid_code)
            THEN Ok(store, "IgnoreDigit")
            ELSE Err(store)
      [] phi = "Finish" /\ input = OkEnter ->
            IF store.current_sequence = store.valid_code
            THEN Ok(store, "Open")
            ELSE Err(store)
      [] phi = "Lock" /\ input = DoorCloses ->
            Ok([store EXCEPT !.current_sequence = <<>>], "Initialise")
      [] OTHER -> Err(store)

\* variant: InputDigit takes one digit more than the code has
Digicode_execute_phi_OneMore(phi, store, input) ==
    CASE phi = "Reject" /\ input = OkEnter ->
            IF store.current_sequence # store.valid_code
            THEN Ok([store EXCEPT !.current_sequence = <<>>], "RejectInput")
            ELSE Err(store)
      [] phi = "InputDigit" /\ IsDigit(input) ->
            IF Len(store.current_sequence) <= Len(store.valid_code)
            THEN Ok([store EXCEPT !.current_sequence = Append(@, input[2])],
                    OutDigit(input[2]))
            ELSE Err(store)
      [] phi = "Ignore" /\ IsDigit(input) ->
            IF Len(store.current_sequence) = Len(store.valid_code)
            THEN Ok(store, "IgnoreDigit")
            ELSE Err(store)
      [] phi = "Finish" /\ input = OkEnter ->
            IF store.current_sequence = store.valid_code
            THEN Ok(store, "Open")
            ELSE Err(store)
      [] phi = "Lock" /\ input = DoorCloses ->
            Ok([store EXCEPT !.current_sequence = <<>>], "Initialise")
      [] OTHER -> Err(store)

Digicode_execute_phi(phi, store, input) ==
    CASE phi = "Reject" /\ input = OkEnter ->
            IF store.current_sequence # store.valid_code
            THEN Ok([store EXCEPT !.current_sequence = <<>>], "RejectInput")
            ELSE Err(store)
      [] phi = "InputDigit" /\ IsDigit(input) ->
            IF Len(store.current_sequence) < Len(store.valid_code)
            THEN Ok([store EXCEPT !.current_sequence = Append(@, input[2])],
                    OutDigit(input[2]))
            ELSE Err(store)
      [] phi = "Ignore" /\ IsDigit(input) ->
            IF Len(store.current_sequence) = Len(store.valid_code)
            THEN Ok(store, "IgnoreDigit")
            ELSE Err(store)
      [] phi = "Finish" /\ input = OkEnter ->
            IF store.current_sequence = store.valid_code
            THEN Ok(store, "Open")
            ELSE Err(store)
      [] phi = "Lock" /\ input = DoorCloses ->
            Ok([store EXCEPT !.current_sequence = <<>>], "Initialise")
      [] OTHER -> Err(store)

Digicode_all_states ==
    <<DigicodeState_Ready, DigicodeState_Accepting, DigicodeState_CodeEntered>>

\* variant: the enumeration leaves Ignore out
Digicode_all_phis_NoIgnore == <<"Reject", "InputDigit", "Finish", "Lock">>

Digicode_all_phis == <<"Reject", "InputDigit", "Ignore", "Finish", "Lock">>

Digicode_all_inputs ==
    <<OkEnter, DoorCloses, Digit(0), Digit(1), Digit(2), Digit(3), Digit(4),
      Digit(5), Digit(6), Digit(7), Digit(8), Digit(9)>>

\* variant: the door-closed symbol is routed to Lock in Accepting too
Digicode_get_phi_for_input_LockAnywhere(state, input) ==
    CASE state = DigicodeState_Ready /\ IsDigit(input) -> "InputDigit"
      [] state = DigicodeState_Ready /\ input = OkEnter -> "Reject"
      [] state = DigicodeState_Accepting /\ IsDigit(input) -> "InputDigit"
      [] state = DigicodeState_Accepting /\ input = OkEnter -> "Finish"
      [] state = DigicodeState_Accepting /\ input = DoorCloses -> "Lock"
      [] state = DigicodeState_CodeEntered /\ input = DoorCloses -> "Lock"
      [] OTHER -> NoPhi

Digicode_get_phi_for_input(state, input) ==
    CASE state = DigicodeState_Ready /\ IsDigit(input) -> "InputDigit"
      [] state = DigicodeState_Ready /\ input = OkEnter -> "Reject"
      [] state = DigicodeState_Accepting /\ IsDigit(input) -> "InputDigit"
      [] state = DigicodeState_Accepting /\ input = OkEnter -> "Finish"
      [] state = DigicodeState_CodeEntered /\ input = DoorCloses -> "Lock"
      [] OTHER -> NoPhi

\* the identifier_map of main, the W set of Digicode
identifier_map(state) ==
    CASE state = DigicodeState_Ready -> <<Digit(1)>>
      [] state = DigicodeState_CodeEntered -> <<DoorCloses>>
      [] state = DigicodeState_Accepting -> <<OkEnter>>

DoorState_Closed == 1

DoorState_Opened == 2

Door_initial_states == <<DoorState_Closed>>

Door_initial_store == 0

Door_next_state(state, phi) ==
    CASE state = DoorState_Closed /\ phi = "OpenDoor" -> DoorState_Opened
      [] state = DoorState_Closed /\ phi = "IgnoreClose" -> DoorState_Closed
      [] state = DoorState_Opened /\ phi = "CloseDoor" -> DoorState_Closed
      [] state = DoorState_Opened /\ phi = "IgnoreOpen" -> DoorState_Opened
      [] OTHER -> NoState

Door_execute_phi(phi, store, input) ==
    CASE phi = "OpenDoor" /\ input = "Open" -> Ok(store + 1, "DoorOpens")
      [] phi = "CloseDoor" /\ input = "Close" -> Ok(store, "DoorCloses")
      [] phi = "IgnoreOpen" /\ input = "Open" -> Ok(store, "OpenIgnored")
      [] phi = "IgnoreClose" /\ input = "Close" -> Ok(store, "CloseIgnored")
      [] OTHER -> Err(store)

Door_all_states == <<DoorState_Closed, DoorState_Opened>>

Door_all_phis == <<"OpenDoor", "CloseDoor", "IgnoreOpen", "IgnoreClose">>

Door_all_inputs == <<"Open", "Close">>

Door_get_phi_for_input(state, input) ==
    CASE state = DoorState_Closed /\ input = "Open" -> "OpenDoor"
      [] state = DoorState_Closed /\ input = "Close" -> "IgnoreClose"
      [] state = DoorState_Opened /\ input = "Close" -> "CloseDoor"
      [] state = DoorState_Opened /\ input = "Open" -> "IgnoreOpen"

\* Err(()) of a conversion, None of a pending input
NoInput == "NoInput"

\* TryFrom<DigicodeOutputAlphabet> for DoorInputAlphabet
DoorInput_try_from(output) == IF output = "Open" THEN "Open" ELSE NoInput

\* variant: DoorOpens is taken for the door-closed symbol as well
DigicodeInput_try_from_AnyDoorOutput(output) ==
    IF output \in {"DoorCloses", "DoorOpens"} THEN DoorCloses ELSE NoInput

\* TryFrom<DoorOutputAlphabet> for DigicodeInputAlphabet
DigicodeInput_try_from(output) ==
    IF output = "DoorCloses" THEN DoorCloses ELSE NoInput

(*************************************************************************)
(* The LightSwitch machine of tests/simple_cycle_test.rs.                *)
(*************************************************************************)
SwitchState_Off == 1

SwitchState_On == 2

LightSwitch_initial_state == SwitchState_Off

LightSwitch_initial_store == [clicks |-> 0]

LightSwitch_get_available_phi(state) ==
    CASE state = SwitchState_Off -> <<"TurnOn">>
      [] state = SwitchState_On -> <<"TurnOff">>

LightSwitch_next_state(state, phi) ==
    CASE state = SwitchState_Off /\ phi = "TurnOn" -> SwitchState_On
      [] state = SwitchState_On /\ phi = "TurnOff" -> SwitchState_Off
      [] OTHER -> state

\* the output is the formatted string "ON (n clicks)" or "OFF (n clicks)"
LightSwitch_execute_phi(phi, store, input) ==
    IF input # 1 THEN Err(store)
    ELSE CASE phi = "TurnOn" ->
                 Ok([store EXCEPT !.clicks = @ + 1], <<"ON", store.clicks + 1>>)
           [] phi = "TurnOff" ->
                 Ok([store EXCEPT !.clicks = @ + 1], <<"OFF", store.clicks + 1>>)

LightSwitch_all_phis == <<"TurnOn", "TurnOff">>

\* the u8 inputs the machine is probed with: the noise 0, the button 1, others
LightSwitch_inputs == <<0, 1, 2, 255>>

(*************************************************************************)
(* The shipped machines under calls of their contract: any caller may    *)
(* hand any phi and any input to execute_phi on the machine's store (as  *)
(* process_input and MachineRunner::step do, phi after phi), and the     *)
(* generators' dispatch takes an input through get_phi_for_input,        *)
(* execute_phi and next_state.                                           *)
(*************************************************************************)
ShippedMachines == {"Digicode", "Door", "LightSwitch"}

PhisOf(machine) ==
    CASE machine = "Digicode" -> Digicode_all_phis
      [] machine = "Door" -> Door_all_phis
      [] machine = "LightSwitch" -> LightSwitch_all_phis

InputsOf(machine) ==
    CASE machine = "Digicode" -> Digicode_all_inputs
      [] machine = "Door" -> Door_all_inputs
      [] machine = "LightSwitch" -> LightSwitch_inputs

ExecuteOf(machine, phi, store, input) ==
    CASE machine = "Digicode" -> Digicode_execute_phi(phi, store, input)
      [] machine = "Door" -> Door_execute_phi(phi, store, input)
      [] machine = "LightSwitch" -> LightSwitch_execute_phi(phi, store, input)

RouteOf(machine, state, input) ==
    CASE machine = "Digicode" -> Digicode_get_phi_for_input(state, input)
      [] machine = "Door" -> Door_get_phi_for_input(state, input)

NextOf(machine, state, phi) ==
    CASE machine = "Digicode" -> Digicode_next_state(state, phi)
      [] machine = "Door" -> Door_next_state(state, phi)

\* the counter a store holds (none in Digicode's)
CountOf(machine, store) ==
    CASE machine = "Digicode" -> 0
      [] machine = "Door" -> store
      [] machine = "LightSwitch" -> store.clicks

Range(seq) == { seq[k] : k \in DOMAIN seq }

\* the generators' program is not running
GenUnused ==
    /\ m = Unused
    /\ pc = "unused"
    /\ si = 1
    /\ ii = 1
    /\ plain = Unused
    /\ sat = Unused
    /\ logic_tests = <<>>
    /\ robust_tests = <<>>
    /\ phi_tests = <<>>
    /\ warnings = <<>>
    /\ phi_pairs = <<>>
    /\ enqueued = <<>>

DoorUnused ==
    /\ system = Unused
    /\ fed = Unused
    /\ printed = Unused

\* a machine as it is constructed: its initial state and its initial store
InitialOf(machine) ==
    CASE machine = "Digicode" ->
            [machine |-> machine,
             state |-> Digicode_initial_states[1],
             store |-> Digicode_initial_store]
      [] machine = "Door" ->
            [machine |-> machine,
             state |-> Door_initial_states[1],
             store |-> Door_initial_store]
      [] machine = "LightSwitch" ->
            [machine |-> machine,
             state |-> LightSwitch_initial_state,
             store |-> LightSwitch_initial_store]

MachinesInit ==
    /\ \E machine \in ShippedMachines : probe = InitialOf(machine)
    /\ GenUnused
    /\ DoorUnused

\* execute_phi called with some phi and some input on the machine's store
ExecutePhi ==
    \E phi \in Range(PhisOf(probe.machine)), input \in Range(InputsOf(probe.machine)) :
        LET r == ExecuteOf(probe.machine, phi, probe.store, input)
        IN  /\ CountOf(probe.machine, r.mem) <= MaxCount
            /\ probe' = [probe EXCEPT !.store = r.mem]
            /\ UNCHANGED <<genVars, doorVars>>

\* an input dispatched as the generators do: the routed phi is executed and,
\* when its guard accepts, the machine moves to next_state
RoutedStep ==
    /\ probe.machine \in {"Digicode", "Door"}
    /\ \E input \in Range(InputsOf(probe.machine)) :
           LET phi == RouteOf(probe.machine, probe.state, input)
               r   == ExecuteOf(probe.machine, phi, probe.store, input)
               nxt == NextOf(probe.machine, probe.state, phi)
           IN  /\ phi # NoPhi
               /\ r.ok
               /\ nxt # NoState
               /\ CountOf(probe.machine, r.mem) <= MaxCount
               /\ probe' = [probe EXCEPT !.state = nxt, !.store = r.mem]
               /\ UNCHANGED <<genVars, doorVars>>

MachinesNext ==
    \/ ExecutePhi
    \/ RoutedStep

MachinesSpec == MachinesInit /\ [][MachinesNext]_vars

\* C12: in Digicode, Door and LightSwitch, for every phi, every input and every
\* memory the machine can be brought to, an execute_phi that returns Err leaves
\* the memory exactly as it was before the call.
C12_GuardFailureAtomic ==
    \A phi \in Range(PhisOf(probe.machine)),
       input \in Range(InputsOf(probe.machine)) :
        LET r == ExecuteOf(probe.machine, phi, probe.store, input)
        IN  ~r.ok => r.mem = probe.store

\* Digicode holds three digits that are not the code: InputDigit rejects a
\* further digit and Finish rejects OkEnter
C12_Witness ==
    /\ probe.machine = "Digicode"
    /\ probe.store.current_sequence = <<4, 9, 3>>
    /\ ~Digicode_execute_phi("InputDigit", probe.store, Digit(5)).ok
    /\ ~Digicode_execute_phi("Finish", probe.store, OkEnter).ok

\* C13: in Digicode and in Door, for every reachable state s and every input i
\* of all_inputs, get_phi_for_input(s, i) = Some(phi) implies
\* next_state(s, phi) = Some(_).
C13_RoutingAndTransitionAgree ==
    probe.machine \in {"Digicode", "Door"} =>
        \A input \in Range(InputsOf(probe.machine)) :
            LET phi == RouteOf(probe.machine, probe.state, input)
            IN  phi # NoPhi => NextOf(probe.machine, probe.state, phi) # NoState

\* Digicode was taken to CodeEntered, where DoorCloses is routed to Lock
C13_Witness ==
    /\ probe.machine = "Digicode"
    /\ probe.state = DigicodeState_CodeEntered
    /\ Digicode_get_phi_for_input(probe.state, DoorCloses) = "Lock"

(*************************************************************************)
(* SecureDoorSystem (examples/secure_door.rs 354-414): the two machines  *)
(* composed by process_input.                                            *)
(*************************************************************************)
\* bound on the number of process_input calls of a run
MaxFed == 4

SecureDoorSystem_new ==
    [digicode_mem |-> Digicode_initial_store, door_mem |-> Door_initial_store]

\* what a machine's loop over all_phis leaves: the store, and the phi and the
\* output of the first `Ok(Some(output))` (NoPhi when no phi gave one)
Tried(mem, phi, output) == [mem |-> mem, phi |-> phi, output |-> output]

\* variant: every phi is tried on a clone, the store is never written back
RECURSIVE Digicode_trial_OnClone(_, _, _)
Digicode_trial_OnClone(k, mem, inp) ==
    IF k > Len(Digicode_all_phis) THEN Tried(mem, NoPhi, NoOutput)
    ELSE LET r == Digicode_execute_phi(Digicode_all_phis[k], Clone(mem), inp)
         IN  IF r.ok /\ r.out # NoOutput
             THEN Tried(mem, Digicode_all_phis[k], r.out)
             ELSE Digicode_trial_OnClone(k + 1, mem, inp)

\* `for &phi in Digicode::all_phis()`, from the k-th phi on: each phi is run on
\* the store itself, up to the first that returns Ok(Some(output))
RECURSIVE Digicode_trial(_, _, _)
Digicode_trial(k, mem, inp) ==
    IF k > Len(Digicode_all_phis) THEN Tried(mem, NoPhi, NoOutput)
    ELSE LET r == Digicode_execute_phi(Digicode_all_phis[k], mem, inp)
         IN  IF r.ok /\ r.out # NoOutput
             THEN Tried(r.mem, Digicode_all_phis[k], r.out)
             ELSE Digicode_trial(k + 1, r.mem, inp)

\* `for &phi in Door::all_phis()`, likewise
RECURSIVE Door_trial(_, _, _)
Door_trial(k, mem, inp) ==
    IF k > Len(Door_all_phis) THEN Tried(mem, NoPhi, NoOutput)
    ELSE LET r == Door_execute_phi(Door_all_phis[k], mem, inp)
         IN  IF r.ok /\ r.out # NoOutput
             THEN Tried(r.mem, Door_all_phis[k], r.out)
             ELSE Door_trial(k + 1, r.mem, inp)

\* a line pair of the log: the machine, its phi and output, and whether the
\* output was routed to the other machine or left to the environment
Line(machine, phi, output, routed) ==
    [machine |-> machine, phi |-> phi, output |-> output, routed |-> routed]

\* the `if let Some(inp) = pending_digicode_input.take()` block of one round
DigicodeTurn(c) ==
    IF c.pending_digicode_input = NoInput THEN c
    ELSE LET t == Digicode_trial(1, c.system.digicode_mem, c.pending_digicode_input)
             door_inp == DoorInput_try_from(t.output)
         IN  IF t.phi = NoPhi
             THEN [c EXCEPT !.pending_digicode_input = NoInput,
                            !.system.digicode_mem = t.mem]
             ELSE [c EXCEPT !.pending_digicode_input = NoInput,
                            !.system.digicode_mem = t.mem,
                            !.internal_activity = TRUE,
                            !.pending_door_input =
                                IF door_inp # NoInput THEN door_inp ELSE @,
                            !.printed = Append(@,
                                Line("Digicode", t.phi, t.output, door_inp # NoInput))]

\* the `if let Some(inp) = pending_door_input.take()` block of one round
DoorTurn(c) ==
    IF c.pending_door_input = NoInput THEN c
    ELSE LET t == Door_trial(1, c.system.door_mem, c.pending_door_input)
             digi_inp == DigicodeInput_try_from(t.output)
         IN  IF t.phi = NoPhi
             THEN [c EXCEPT !.pending_door_input = NoInput,
                            !.system.door_mem = t.mem]
             ELSE [c EXCEPT !.pending_door_input = NoInput,
                            !.system.door_mem = t.mem,
                            !.internal_activity = TRUE,
                            !.pending_digicode_input =
                                IF digi_inp # NoInput THEN digi_inp ELSE @,
                            !.printed = Append(@,
                                Line("Door", t.phi, t.output, digi_inp # NoInput))]

\* the `loop` of process_input, round after round until one has no activity
RECURSIVE ProcessLoop(_)
ProcessLoop(c) ==
    LET done == DoorTurn(DigicodeTurn([c EXCEPT !.internal_activity = FALSE]))
    IN  IF ~done.internal_activity THEN done ELSE ProcessLoop(done)

process_input(sys, input) ==
    ProcessLoop([system |-> sys,
                 pending_digicode_input |-> input,
                 pending_door_input |-> NoInput,
                 internal_activity |-> FALSE,
                 printed |-> <<>>])

SecureInit ==
    /\ system = SecureDoorSystem_new
    /\ fed = <<>>
    /\ printed = <<>>
    /\ probe = Unused
    /\ GenUnused

\* process_input called with an input of the Digicode alphabet
ProcessInput ==
    /\ Len(fed) < MaxFed
    /\ \E input \in Range(Digicode_all_inputs) :
           LET c == process_input(system, input)
           IN  /\ system' = c.system
               /\ printed' = c.printed
               /\ fed' = Append(fed, input)
    /\ UNCHANGED <<genVars, probe>>

SecureNext == ProcessInput

SecureSpec == SecureInit /\ [][SecureNext]_vars

\* C17: from SecureDoorSystem::new(), after process_input of Digit 4, Digit 9,
\* Digit 2 the open count door_mem is still 0; the following
\* process_input(OkEnter) makes Digicode produce Open through Finish, which is
\* routed to the Door, whose OpenDoor takes door_mem from 0 to exactly 1.
C17_CorrectCodeOpensOnce ==
    /\ fed = <<Digit(4), Digit(9), Digit(2)>> => system.door_mem = 0
    /\ fed = <<Digit(4), Digit(9), Digit(2), OkEnter>> =>
           /\ printed = << Line("Digicode", "Finish", "Open", TRUE),
                           Line("Door", "OpenDoor", "DoorOpens", FALSE) >>
           /\ system.door_mem = 1

C17_Witness ==
    /\ fed = <<Digit(4), Digit(9), Digit(2), OkEnter>>
    /\ system.door_mem = 1

\* C18: from SecureDoorSystem::new(), process_input of Digit 4, Digit 9,
\* Digit 3 and then OkEnter gives the output RejectInput on the OkEnter and
\* leaves current_sequence empty; nothing is Open and door_mem is unchanged.
C18_WrongCodeRejected ==
    fed = <<Digit(4), Digit(9), Digit(3), OkEnter>> =>
        /\ printed = << Line("Digicode", "Reject", "RejectInput", FALSE) >>
        /\ system.digicode_mem.current_sequence = <<>>
        /\ system.digicode_mem.valid_code = <<4, 9, 2>>
        /\ system.door_mem = Door_initial_store

C18_Witness ==
    /\ fed = <<Digit(4), Digit(9), Digit(3), OkEnter>>
    /\ printed # <<>>
    /\ printed[1].output = "RejectInput"

\* C19: whenever current_sequence already has the length of the valid code, a
\* process_input of a further Digit(d), d in 0..9, gives the output IgnoreDigit
\* and leaves the whole Digicode memory (current_sequence and valid_code)
\* unchanged.
C19_ExtraDigitIgnored ==
    [][ ( /\ Len(system.digicode_mem.current_sequence) =
               Len(system.digicode_mem.valid_code)
          /\ fed' # fed
          /\ IsDigit(fed'[Len(fed')]) )
        => /\ printed' = << Line("Digicode", "Ignore", "IgnoreDigit", FALSE) >>
           /\ system'.digicode_mem = system.digicode_mem ]_vars

\* a fourth digit was entered after three
C19_Witness ==
    /\ Len(fed) = 4
    /\ \A k \in 1..4 : IsDigit(fed[k])
    /\ Len(system.digicode_mem.current_sequence) = 3
    /\ printed = << Line("Digicode", "Ignore", "IgnoreDigit", FALSE) >>

(*************************************************************************)
(* The generators instantiated with T = Digicode, as main calls them     *)
(* (examples/secure_door.rs 441-460): the same searches and loops of     *)
(* mbt.rs, over Digicode's contract.                                     *)
(*************************************************************************)
\* find_path_to_state::<Digicode>, the seeding loop with its early return
RECURSIVE Digicode_PlainSeed(_, _, _)
Digicode_PlainSeed(starts, k, p) ==
    IF k > Len(starts) THEN p
    ELSE IF starts[k] = p.target
         THEN [p EXCEPT !.done = TRUE, !.found = TRUE, !.path = <<>>]
         ELSE Digicode_PlainSeed(starts, k + 1,
                  [p EXCEPT !.queue = Append(@, [state |-> starts[k], path |-> <<>>]),
                            !.visited = Append(@, starts[k])])

Digicode_PlainStart(target) ==
    Digicode_PlainSeed(Digicode_initial_states, 1,
        [ target |-> target, queue |-> <<>>, visited |-> <<>>,
          done |-> FALSE, found |-> FALSE, path |-> <<>> ])

\* find_path_to_state::<Digicode>, the for loop over all_inputs for one node
RECURSIVE Digicode_PlainExpand(_, _, _)
Digicode_PlainExpand(node, k, p) ==
    IF k > Len(Digicode_all_inputs) THEN p
    ELSE LET input == Digicode_all_inputs[k]
             phi   == Digicode_get_phi_for_input(node.state, input)
             nxt   == IF phi = NoPhi THEN NoState
                      ELSE Digicode_next_state(node.state, phi)
         IN  IF nxt = NoState THEN Digicode_PlainExpand(node, k + 1, p)
             ELSE IF nxt = p.target
                  THEN [p EXCEPT !.done = TRUE, !.found = TRUE,
                                 !.path = Append(node.path, input)]
                  ELSE IF ~Contains(p.visited, nxt)
                       THEN Digicode_PlainExpand(node, k + 1,
                                [p EXCEPT !.visited = Append(@, nxt),
                                          !.queue = Append(@,
                                              [state |-> nxt,
                                               path |-> Append(node.path, input)])])
                       ELSE Digicode_PlainExpand(node, k + 1, p)

\* find_path_to_state::<Digicode>, one iteration of its while loop
Digicode_PlainStep(p) ==
    IF p.queue = <<>> THEN [p EXCEPT !.done = TRUE, !.found = FALSE]
    ELSE Digicode_PlainExpand(Head(p.queue), 1, [p EXCEPT !.queue = Tail(@)])

Digicode_SatStart(target_state, target_phi, trigger_input) ==
    [ target_state |-> target_state,
      target_phi |-> target_phi,
      trigger_input |-> trigger_input,
      queue |-> [k \in 1..Len(Digicode_initial_states) |->
                    [state |-> Digicode_initial_states[k],
                     mem |-> Digicode_initial_store,
                     path |-> <<>>]],
      done |-> FALSE, found |-> FALSE, path |-> <<>>,
      mem |-> Digicode_initial_store ]

\* variant: a node in the target state is accepted without running the phi
Digicode_SatAccepts_StateOnly(s, node) == node.state = s.target_state

\* find_path_to_satisfy_phi::<Digicode>, the speculative execution of the
\* target phi on a clone of the node's memory
Digicode_SatAccepts(s, node) ==
    /\ node.state = s.target_state
    /\ Digicode_execute_phi(s.target_phi, Clone(node.mem), s.trigger_input).ok

\* find_path_to_satisfy_phi::<Digicode>, the for loop over all_inputs
RECURSIVE Digicode_SatExpand(_, _, _)
Digicode_SatExpand(node, k, s) ==
    IF k > Len(Digicode_all_inputs) THEN s
    ELSE LET input == Digicode_all_inputs[k]
             phi   == Digicode_get_phi_for_input(node.state, input)
             r     == Digicode_execute_phi(phi, Clone(node.mem), input)
             nxt   == Digicode_next_state(node.state, phi)
         IN  IF phi # NoPhi /\ r.ok /\ nxt # NoState
             THEN Digicode_SatExpand(node, k + 1,
                      [s EXCEPT !.queue = Append(@,
                          [state |-> nxt, mem |-> r.mem,
                           path |-> Append(node.path, input)])])
             ELSE Digicode_SatExpand(node, k + 1, s)

\* find_path_to_satisfy_phi::<Digicode>, one iteration of its while loop
Digicode_SatStep(s) ==
    IF s.queue = <<>> THEN [s EXCEPT !.done = TRUE, !.found = FALSE]
    ELSE LET node == Head(s.queue)
             rest == [s EXCEPT !.queue = Tail(@)]
         IN  IF Digicode_SatAccepts(s, node) THEN SatReturn(rest, node)
             ELSE IF Len(node.path) >= max_depth THEN rest
             ELSE Digicode_SatExpand(node, 1, rest)

\* generate_logic_tests::<Digicode>, the loop over all_inputs for one state
RECURSIVE Digicode_LogicInputs(_, _, _, _)
Digicode_LogicInputs(target_state, path_to_state, k, tests) ==
    IF k > Len(Digicode_all_inputs) THEN tests
    ELSE LET input == Digicode_all_inputs[k]
             phi   == Digicode_get_phi_for_input(target_state, input)
             nxt   == IF phi = NoPhi THEN NoState
                      ELSE Digicode_next_state(target_state, phi)
         IN  IF nxt = NoState
             THEN Digicode_LogicInputs(target_state, path_to_state, k + 1, tests)
             ELSE Digicode_LogicInputs(target_state, path_to_state, k + 1,
                      Append(tests,
                          TestCase(<<"Logic Verify", target_state, input, nxt>>,
                                   path_to_state,
                                   input,
                                   OkFlatten(Digicode_execute_phi(
                                       phi, Digicode_initial_store, input)),
                                   identifier_map(nxt))))

\* generate_robustness_tests::<Digicode>, the loop over all_inputs for one state
RECURSIVE Digicode_RobustInputs(_, _, _, _)
Digicode_RobustInputs(state, path, k, tests) ==
    IF k > Len(Digicode_all_inputs) THEN tests
    ELSE LET input == Digicode_all_inputs[k]
             is_defined == Digicode_get_phi_for_input(state, input) # NoPhi
         IN  IF ~is_defined
             THEN Digicode_RobustInputs(state, path, k + 1,
                      Append(tests,
                          TestCase(<<"Robustness", state, input>>,
                                   path, input, NoOutput, <<>>)))
             ELSE Digicode_RobustInputs(state, path, k + 1, tests)

\* generate_phi_coverage_tests::<Digicode>, the test built from a witness
Digicode_PhiTest(start_state, input, target_phi, setup_path, resulting_memory) ==
    TestCase(<<"Phi Verify", target_phi, setup_path>>,
             setup_path,
             input,
             OkFlatten(Digicode_execute_phi(target_phi, Clone(resulting_memory), input)),
             identifier_map(Digicode_next_state(start_state, target_phi)))

Digicode_IdleSat ==
    [IdleSat EXCEPT !.trigger_input = OkEnter, !.mem = Digicode_initial_store]

DigicodeInit ==
    /\ m = "Digicode"
    /\ pc = "logic"
    /\ si = 1
    /\ ii = 1
    /\ plain = IdlePlain
    /\ sat = Digicode_IdleSat
    /\ logic_tests = <<>>
    /\ robust_tests = <<>>
    /\ phi_tests = <<>>
    /\ warnings = <<>>
    /\ phi_pairs = <<>>
    /\ enqueued = <<>>
    /\ DoorUnused
    /\ probe = Unused

\* generate_logic_tests::<Digicode>: the next target_state, the search called
DigicodeLogicBegin ==
    /\ pc = "logic"
    /\ si <= Len(Digicode_all_states)
    /\ plain' = Digicode_PlainStart(Digicode_all_states[si])
    /\ enqueued' = Pushed(<<>>, plain'.queue)
    /\ pc' = "logic_search"
    /\ UNCHANGED <<doorVars, probe, m, si, ii, sat, logic_tests, robust_tests,
                   phi_tests, warnings, phi_pairs>>

\* find_path_to_state::<Digicode>: one iteration of its while loop
DigicodePlainSearchStep ==
    /\ pc \in {"logic_search", "robust_search"}
    /\ ~plain.done
    /\ plain' = Digicode_PlainStep(plain)
    /\ enqueued' = enqueued \o
           (IF plain.queue = <<>> THEN <<>>
            ELSE Pushed(Tail(plain.queue), plain'.queue))
    /\ UNCHANGED <<doorVars, probe, m, pc, si, ii, sat, logic_tests, robust_tests,
                   phi_tests, warnings, phi_pairs>>

\* generate_logic_tests::<Digicode>: the search returned, the tests pushed
DigicodeLogicEmit ==
    /\ pc = "logic_search"
    /\ plain.done
    /\ logic_tests' =
           IF plain.found
           THEN Digicode_LogicInputs(Digicode_all_states[si], plain.path, 1,
                                     logic_tests)
           ELSE logic_tests
    /\ si' = si + 1
    /\ pc' = "logic"
    /\ UNCHANGED <<doorVars, probe, m, ii, plain, sat, robust_tests, phi_tests,
                   warnings, phi_pairs, enqueued>>

\* generate_logic_tests returns; main calls generate_robustness_tests
DigicodeLogicReturn ==
    /\ pc = "logic"
    /\ si > Len(Digicode_all_states)
    /\ pc' = "robust"
    /\ si' = 1
    /\ plain' = IdlePlain
    /\ enqueued' = <<>>
    /\ UNCHANGED <<doorVars, probe, m, ii, sat, logic_tests, robust_tests,
                   phi_tests, warnings, phi_pairs>>

\* generate_robustness_tests::<Digicode>: the next state, the search called
DigicodeRobustBegin ==
    /\ pc = "robust"
    /\ si <= Len(Digicode_all_states)
    /\ plain' = Digicode_PlainStart(Digicode_all_states[si])
    /\ enqueued' = Pushed(<<>>, plain'.queue)
    /\ pc' = "robust_search"
    /\ UNCHANGED <<doorVars, probe, m, si, ii, sat, logic_tests, robust_tests,
                   phi_tests, warnings, phi_pairs>>

\* generate_robustness_tests::<Digicode>: the search returned, the tests pushed
DigicodeRobustEmit ==
    /\ pc = "robust_search"
    /\ plain.done
    /\ robust_tests' =
           IF plain.found
           THEN Digicode_RobustInputs(Digicode_all_states[si], plain.path, 1,
                                      robust_tests)
           ELSE robust_tests
    /\ si' = si + 1
    /\ pc' = "robust"
    /\ UNCHANGED <<doorVars, probe, m, ii, plain, sat, logic_tests, phi_tests,
                   warnings, phi_pairs, enqueued>>

\* generate_robustness_tests returns; main calls generate_phi_coverage_tests
DigicodeRobustReturn ==
    /\ pc = "robust"
    /\ si > Len(Digicode_all_states)
    /\ pc' = "phi"
    /\ si' = 1
    /\ ii' = 1
    /\ plain' = IdlePlain
    /\ enqueued' = <<>>
    /\ UNCHANGED <<doorVars, probe, m, sat, logic_tests, robust_tests, phi_tests,
                   warnings, phi_pairs>>

\* the two nested for loops of generate_phi_coverage_tests::<Digicode> move on
DigicodePhiAdvance ==
    IF ii < Len(Digicode_all_inputs)
    THEN /\ ii' = ii + 1
         /\ si' = si
    ELSE /\ ii' = 1
         /\ si' = si + 1

\* generate_phi_coverage_tests::<Digicode>: an input with no routed phi
DigicodePhiSkip ==
    /\ pc = "phi"
    /\ si <= Len(Digicode_all_states)
    /\ Digicode_get_phi_for_input(Digicode_all_states[si],
                                  Digicode_all_inputs[ii]) = NoPhi
    /\ DigicodePhiAdvance
    /\ UNCHANGED <<doorVars, probe, m, pc, plain, sat, logic_tests, robust_tests,
                   phi_tests, warnings, phi_pairs, enqueued>>

\* generate_phi_coverage_tests::<Digicode>: the guard-aware search called
DigicodePhiBegin ==
    /\ pc = "phi"
    /\ si <= Len(Digicode_all_states)
    /\ Digicode_get_phi_for_input(Digicode_all_states[si],
                                  Digicode_all_inputs[ii]) # NoPhi
    /\ sat' = Digicode_SatStart(
                  Digicode_all_states[si],
                  Digicode_get_phi_for_input(Digicode_all_states[si],
                                             Digicode_all_inputs[ii]),
                  Digicode_all_inputs[ii])
    /\ pc' = "phi_search"
    /\ UNCHANGED <<doorVars, probe, m, si, ii, plain, logic_tests, robust_tests,
                   phi_tests, warnings, phi_pairs, enqueued>>

\* find_path_to_satisfy_phi::<Digicode>: one iteration of its while loop
DigicodeSatSearchStep ==
    /\ pc = "phi_search"
    /\ ~sat.done
    /\ sat' = Digicode_SatStep(sat)
    /\ UNCHANGED <<doorVars, probe, m, pc, si, ii, plain, logic_tests,
                   robust_tests, phi_tests, warnings, phi_pairs, enqueued>>

\* generate_phi_coverage_tests::<Digicode>: the search returned.  With a
\* witness the test is pushed (next_state(..).unwrap() panics on None);
\* without one the warning is printed.
DigicodePhiResult ==
    /\ pc = "phi_search"
    /\ sat.done
    /\ IF sat.found
       THEN IF Digicode_next_state(Digicode_all_states[si], sat.target_phi) = NoState
            THEN /\ pc' = "panicked"
                 /\ UNCHANGED <<si, ii, phi_tests, phi_pairs, warnings>>
            ELSE /\ phi_tests' = Append(phi_tests,
                        Digicode_PhiTest(Digicode_all_states[si],
                                         Digicode_all_inputs[ii],
                                         sat.target_phi, sat.path, sat.mem))
                 /\ phi_pairs' = Append(phi_pairs,
                        <<Digicode_all_states[si], Digicode_all_inputs[ii]>>)
                 /\ DigicodePhiAdvance
                 /\ pc' = "phi"
                 /\ UNCHANGED warnings
       ELSE /\ warnings' = Append(warnings,
                   <<sat.target_phi, Digicode_all_states[si]>>)
            /\ DigicodePhiAdvance
            /\ pc' = "phi"
            /\ UNCHANGED <<phi_tests, phi_pairs>>
    /\ UNCHANGED <<doorVars, probe, m, plain, sat, logic_tests, robust_tests,
                   enqueued>>

\* generate_phi_coverage_tests::<Digicode> returns its tests
DigicodePhiReturn ==
    /\ pc = "phi"
    /\ si > Len(Digicode_all_states)
    /\ pc' = "done"
    /\ sat' = Digicode_IdleSat
    /\ UNCHANGED <<doorVars, probe, m, si, ii, plain, logic_tests, robust_tests,
                   phi_tests, warnings, phi_pairs, enqueued>>

DigicodeNext ==
    \/ DigicodeLogicBegin
    \/ DigicodePlainSearchStep
    \/ DigicodeLogicEmit
    \/ DigicodeLogicReturn
    \/ DigicodeRobustBegin
    \/ DigicodeRobustEmit
    \/ DigicodeRobustReturn
    \/ DigicodePhiSkip
    \/ DigicodePhiBegin
    \/ DigicodeSatSearchStep
    \/ DigicodePhiResult
    \/ DigicodePhiReturn

DigicodeSpec == DigicodeInit /\ [][DigicodeNext]_vars

\* a path replayed on a Digicode configuration under routed, guarded execution
RECURSIVE Digicode_Replay(_, _, _)
Digicode_Replay(state, mem, path) ==
    IF path = <<>> THEN [ok |-> TRUE, state |-> state, mem |-> mem]
    ELSE LET phi == Digicode_get_phi_for_input(state, Head(path))
             r   == Digicode_execute_phi(phi, mem, Head(path))
             nxt == Digicode_next_state(state, phi)
         IN  IF phi = NoPhi \/ ~r.ok \/ nxt = NoState
             THEN [ok |-> FALSE, state |-> state, mem |-> mem]
             ELSE Digicode_Replay(nxt, r.mem, Tail(path))

\* C16: generate_phi_coverage_tests on Digicode emits for (Accepting, OkEnter)
\* one test, exercising Finish, whose setup_sequence is exactly
\* [Digit 4, Digit 9, Digit 2] and whose expected_output is Open; and
\* find_path_to_satisfy_phi never returns, for Finish, a path shorter than 3
\* inputs or one whose replay leaves a current_sequence other than [4, 9, 2].
C16_FinishWitness ==
    /\ pc = "done" =>
           LET ks == { k \in DOMAIN phi_pairs :
                         phi_pairs[k] = <<DigicodeState_Accepting, OkEnter>> }
           IN  /\ Cardinality(ks) = 1
               /\ \A k \in ks :
                      /\ phi_tests[k].name[2] = "Finish"
                      /\ phi_tests[k].test_input = OkEnter
                      /\ phi_tests[k].setup_sequence = <<Digit(4), Digit(9), Digit(2)>>
                      /\ phi_tests[k].expected_output = "Open"
    /\ (pc = "phi_search" /\ sat.done /\ sat.target_phi = "Finish") =>
           /\ sat.found
           /\ Len(sat.path) >= 3
           /\ LET r == Digicode_Replay(Digicode_initial_states[1],
                                       Digicode_initial_store, sat.path)
              IN  /\ r.ok
                  /\ r.state = DigicodeState_Accepting
                  /\ r.mem.current_sequence = <<4, 9, 2>>
                  /\ r.mem = sat.mem

\* the search for Finish came back and its test was pushed
C16_Witness ==
    /\ m = "Digicode"
    /\ \E k \in DOMAIN phi_tests :
           /\ phi_tests[k].name[2] = "Finish"
           /\ phi_tests[k].expected_output = "Open"

\* generate_robustness_tests::<Digicode> has just returned its tests
DigicodeRobustReturned == m = "Digicode" /\ pc = "phi" /\ si = 1 /\ ii = 1

\* C20: in Digicode, get_phi_for_input(s, DoorCloses) is None for every state s
\* other than CodeEntered, and generate_robustness_tests emits a rejection test
\* (expected_output None, empty verification_sequence) with test_input
\* DoorCloses for Ready and for Accepting, and none for CodeEntered.
C20_DoorClosesRejected ==
    /\ \A s \in Range(Digicode_all_states) :
           s # DigicodeState_CodeEntered =>
               Digicode_get_phi_for_input(s, DoorCloses) = NoPhi
    /\ DigicodeRobustReturned =>
           /\ \A s \in {DigicodeState_Ready, DigicodeState_Accepting} :
                  /\ TestsOf(robust_tests, s, DoorCloses) # {}
                  /\ \A k \in TestsOf(robust_tests, s, DoorCloses) :
                         /\ robust_tests[k].expected_output = NoOutput
                         /\ robust_tests[k].verification_sequence = <<>>
           /\ TestsOf(robust_tests, DigicodeState_CodeEntered, DoorCloses) = {}

\* the suite was returned, with rejection tests for the inputs CodeEntered
\* does not route as well
C20_Witness ==
    /\ DigicodeRobustReturned
    /\ TestsOf(robust_tests, DigicodeState_Accepting, DoorCloses) # {}
    /\ TestsOf(robust_tests, DigicodeState_CodeEntered, OkEnter) # {}

(*************************************************************************)
(* MachineRunner (src/runner.rs) over the trait of src/traits.rs: a      *)
(* machine has one initial state, a list of available phis per state and *)
(* a total next_state.  The runner is generic, so it is run on           *)
(* LightSwitch and on a bounded family of machines built from the        *)
(* processing functions Inc, Match and Reset, which leave the store      *)
(* alone when their guard fails, as the contract of execute_phi asks.    *)
(*************************************************************************)
\* number of states of a machine the runner is run on
NRunnerStates == 2

RunnerStates == 1..NRunnerStates

\* variant: a machine may list Dirty, which writes the store and then rejects
AvailableListsDirty ==
    { <<>>, <<"Inc", "Match">>, <<"Match", "Inc">>, <<"Reset", "Inc">>,
      <<"Match", "Reset">>, <<"Dirty", "Match">> }

\* the lists get_available_phi may return for a state of the family
AvailableLists ==
    { <<>>, <<"Inc", "Match">>, <<"Match", "Inc">>, <<"Reset", "Inc">>,
      <<"Match", "Reset">>, <<"Match">> }

\* next_state of the family: Inc stays, Match moves on, Reset goes back to q0
Trial_next_state(state, phi) ==
    CASE phi = "Inc" -> state
      [] phi = "Match" -> (state % NRunnerStates) + 1
      [] phi = "Reset" -> 1
      [] OTHER -> state

\* a machine held as a record [kind, available]
TrialMachines ==
    { [kind |-> "Trial", available |-> av] : av \in [RunnerStates -> AvailableLists] }

LightSwitchMachine ==
    [kind |-> "LightSwitch",
     available |-> [s \in {SwitchState_Off, SwitchState_On} |->
                        LightSwitch_get_available_phi(s)]]

RunnerMachines == TrialMachines \cup {LightSwitchMachine}

XMachine_initial_state(M) ==
    IF M.kind = "LightSwitch" THEN LightSwitch_initial_state ELSE 1

XMachine_initial_store(M) ==
    IF M.kind = "LightSwitch" THEN LightSwitch_initial_store ELSE initial_store

XMachine_get_available_phi(M, state) == M.available[state]

XMachine_next_state(M, state, phi) ==
    IF M.kind = "LightSwitch" THEN LightSwitch_next_state(state, phi)
                              ELSE Trial_next_state(state, phi)

XMachine_execute_phi(M, phi, store, input) ==
    IF M.kind = "LightSwitch" THEN LightSwitch_execute_phi(phi, store, input)
                              ELSE execute_phi(phi, store, input)

XMachine_inputs(M) ==
    IF M.kind = "LightSwitch" THEN LightSwitch_inputs ELSE all_inputs

\* MachineRunner::new
MachineRunner_new(M) ==
    [state |-> XMachine_initial_state(M), store |-> XMachine_initial_store(M)]

\* what one call of step did: its result, the runner as the call leaves it,
\* and the phis it handed to execute_phi, in the order of the calls
Stepped(ok, out, state, store, tried) ==
    [ok |-> ok, out |-> out, state |-> state, store |-> store, tried |-> tried]

RECURSIVE MachineRunner_loop_KeepsTrying(_, _, _, _, _, _)
\* variant: the loop does not return at the first Ok, so a later phi whose
\* guard passes runs as well
MachineRunner_loop_KeepsTrying(M, runner, input, k, store, tried) ==
    LET possible_phis == XMachine_get_available_phi(M, runner.state)
    IN  IF k > Len(possible_phis)
        THEN Stepped(FALSE, NoOutput, runner.state, store, tried)
        ELSE LET phi == possible_phis[k]
                 r   == XMachine_execute_phi(M, phi, store, input)
                 rest == MachineRunner_loop_KeepsTrying(M, runner, input, k + 1,
                                                        r.mem, Append(tried, phi))
             IN  IF r.ok /\ ~rest.ok
                 THEN Stepped(TRUE, r.out, XMachine_next_state(M, runner.state, phi),
                              r.mem, Append(tried, phi))
                 ELSE rest

RECURSIVE MachineRunner_loop(_, _, _, _, _, _)
\* the for loop of step from the k-th phi on; every execute_phi works on the
\* runner's own store, so what a rejected phi leaves there is what the next
\* phi finds
MachineRunner_loop(M, runner, input, k, store, tried) ==
    LET possible_phis == XMachine_get_available_phi(M, runner.state)
    IN  IF k > Len(possible_phis)
        THEN Stepped(FALSE, NoOutput, runner.state, store, tried)
        ELSE LET phi == possible_phis[k]
                 r   == XMachine_execute_phi(M, phi, store, input)
             IN  IF r.ok
                 THEN Stepped(TRUE, r.out, XMachine_next_state(M, runner.state, phi),
                              r.mem, Append(tried, phi))
                 ELSE MachineRunner_loop(M, runner, input, k + 1,
                                         r.mem, Append(tried, phi))

\* MachineRunner::step
MachineRunner_step(M, runner, input) ==
    MachineRunner_loop(M, runner, input, 1, runner.store, <<>>)

\* no step was called yet
NotStepped == [called |-> FALSE, input |-> 0, before |-> Unused, did |-> Unused]

\* the runner's program: probe holds the machine, the runner, the number of
\* steps that returned Ok, and the last call of step
RunnerInit ==
    /\ \E M \in RunnerMachines :
           probe = [M |-> M, runner |-> MachineRunner_new(M),
                    accepted |-> 0, last |-> NotStepped]
    /\ GenUnused
    /\ DoorUnused

\* a call of step with some input
RunnerStep ==
    \E input \in Range(XMachine_inputs(probe.M)) :
        LET did == MachineRunner_step(probe.M, probe.runner, input)
            n   == probe.accepted + (IF did.ok THEN 1 ELSE 0)
        IN  /\ n <= MaxCount
            /\ probe' = [probe EXCEPT
                            !.runner = [state |-> did.state, store |-> did.store],
                            !.accepted = n,
                            !.last = [called |-> TRUE, input |-> input,
                                      before |-> probe.runner, did |-> did]]
            /\ UNCHANGED <<genVars, doorVars>>

RunnerNext == RunnerStep

RunnerSpec == RunnerInit /\ [][RunnerNext]_vars

\* the phis of the list whose guard accepts the input on the store, by position
PassingAt(M, runner, input) ==
    LET possible_phis == XMachine_get_available_phi(M, runner.state)
    IN  { k \in DOMAIN possible_phis :
            XMachine_execute_phi(M, possible_phis[k], runner.store, input).ok }

\* C21: when step is called with an input that every phi of
\* get_available_phi(state) rejects, it returns Err and leaves state and store
\* as they were before the call; for LightSwitch every input other than 1 is
\* such an input, in either state.
C21_RejectionLeavesRunner ==
    /\ probe.last.called /\ PassingAt(probe.M, probe.last.before, probe.last.input) = {}
           => /\ ~probe.last.did.ok
              /\ probe.runner = probe.last.before
    /\ probe.last.called /\ probe.M.kind = "LightSwitch" /\ probe.last.input # 1
           => /\ ~probe.last.did.ok
              /\ probe.runner = probe.last.before

\* LightSwitch, switched on by one press, was sent the noise input 0
C21_Witness ==
    /\ probe.M.kind = "LightSwitch"
    /\ probe.last.called
    /\ probe.last.input = 0
    /\ probe.last.before.state = SwitchState_On
    /\ ~probe.last.did.ok
    /\ probe.runner.store.clicks = 1

\* the smallest member of a non-empty set of positions
First(K) == CHOOSE k \in K : \A j \in K : k <= j

\* C22: a step that returns Ok executed exactly the first phi, in the order of
\* get_available_phi(state), whose guard passes on the store and the input of
\* the call: the phis handed to execute_phi are the list up to that phi and no
\* later one, the state is next_state(old state, phi), the store and the
\* returned output are that phi's; and LightSwitch, started in Off, is in On
\* after n accepted inputs iff n is odd, with clicks = n.
C22_OrderedTrial ==
    /\ probe.last.called =>
         LET M   == probe.M
             old == probe.last.before
             possible_phis == XMachine_get_available_phi(M, old.state)
             K   == PassingAt(M, old, probe.last.input)
         IN  /\ probe.last.did.ok <=> K # {}
             /\ K # {} =>
                  LET phi == possible_phis[First(K)]
                      r   == XMachine_execute_phi(M, phi, old.store, probe.last.input)
                  IN  /\ probe.last.did.tried = SubSeq(possible_phis, 1, First(K))
                      /\ probe.runner.state = XMachine_next_state(M, old.state, phi)
                      /\ probe.runner.store = r.mem
                      /\ probe.last.did.out = r.out
    /\ probe.M.kind = "LightSwitch" =>
         /\ probe.runner.state = SwitchState_On <=> probe.accepted % 2 = 1
         /\ probe.runner.store.clicks = probe.accepted

\* a machine listing Reset before Inc accepted an input through Reset, on a
\* store on which Inc would have passed too: Inc was not attempted
C22_Witness ==
    /\ probe.M.kind = "Trial"
    /\ probe.last.called
    /\ probe.last.did.ok
    /\ XMachine_get_available_phi(probe.M, probe.last.before.state) = <<"Reset", "Inc">>
    /\ probe.last.did.tried = <<"Reset">>
    /\ execute_phi("Inc", probe.last.before.store, probe.last.input).ok

\* the configurations <<state, memory>> Digicode gets to from a set of them by
\* one input under routed, guarded execution
Digicode_CfgStep(C) ==
    { [state |-> Digicode_next_state(c.state,
                     Digicode_get_phi_for_input(c.state, Digicode_all_inputs[i])),
       mem |-> Digicode_execute_phi(
                     Digicode_get_phi_for_input(c.state, Digicode_all_inputs[i]),
                     c.mem, Digicode_all_inputs[i]).mem] :
        <<c, i>> \in
            { p \in C \X DOMAIN Digicode_all_inputs :
                LET phi == Digicode_get_phi_for_input(p[1].state, Digicode_all_inputs[p[2]])
                IN  /\ phi # NoPhi
                    /\ Digicode_execute_phi(phi, p[1].mem, Digicode_all_inputs[p[2]]).ok
                    /\ Digicode_next_state(p[1].state, phi) # NoState } }

RECURSIVE Digicode_CfgWithin(_)
\* the configurations Digicode gets to by at most k inputs
Digicode_CfgWithin(k) ==
    IF k = 0
    THEN { [state |-> Digicode_initial_states[i], mem |-> Digicode_initial_store] :
             i \in DOMAIN Digicode_initial_states }
    ELSE LET C == Digicode_CfgWithin(k - 1) IN C \cup Digicode_CfgStep(C)

\* phi labels a transition from state s, and some memory Digicode has in s
\* within the depth bound lets its guard accept some input
Digicode_ValidPhi(s, phi) ==
    /\ Digicode_next_state(s, phi) # NoState
    /\ \E c \in Digicode_CfgWithin(max_depth) :
           /\ c.state = s
           /\ \E i \in DOMAIN Digicode_all_inputs :
                  Digicode_execute_phi(phi, c.mem, Digicode_all_inputs[i]).ok

\* the tests of generate_phi_coverage_tests::<Digicode> that exercise phi from s
Digicode_PhiTestsOf(s, phi) ==
    { k \in DOMAIN phi_tests : phi_pairs[k][1] = s /\ phi_tests[k].name[2] = phi }

\* C23: for every phi of all_phis that labels a defined transition from a
\* state s and whose guard some memory reachable in s within the depth bound
\* satisfies, generate_phi_coverage_tests emits at least one test that
\* exercises that phi from s; for Digicode this includes Ignore from Accepting
\* and Reject from Accepting.
C23_EveryValidPhiExercised ==
    (m = "Digicode" /\ pc = "done") =>
        \A s \in Range(Digicode_all_states), phi \in Range(Digicode_all_phis) :
            Digicode_ValidPhi(s, phi) => Digicode_PhiTestsOf(s, phi) # {}

\* what the generator does cover: every phi that some input is routed to
RoutedValidPhiExercised ==
    (m = "Digicode" /\ pc = "done") =>
        \A s \in Range(Digicode_all_states), phi \in Range(Digicode_all_phis) :
            (/\ Digicode_ValidPhi(s, phi)
             /\ \E i \in DOMAIN Digicode_all_inputs :
                    Digicode_get_phi_for_input(s, Digicode_all_inputs[i]) = phi)
                => Digicode_PhiTestsOf(s, phi) # {}

\* the suite is returned with no test for Ignore or for Reject from Accepting,
\* both of which label a transition from Accepting and have a passing guard
\* on a memory held there
AcceptingPhisUncovered ==
    /\ m = "Digicode"
    /\ pc = "done"
    /\ Digicode_ValidPhi(DigicodeState_Accepting, "Ignore")
    /\ Digicode_ValidPhi(DigicodeState_Accepting, "Reject")
    /\ Digicode_PhiTestsOf(DigicodeState_Accepting, "Ignore") = {}
    /\ Digicode_PhiTestsOf(DigicodeState_Accepting, "Reject") = {}

\* the phis of Digicode::all_phis(), from the k-th on, that return Ok(_) in
\* the for loop of process_input (the loop goes on after an Ok(None))
RECURSIVE Digicode_executed(_, _, _)
Digicode_executed(k, mem, inp) ==
    IF k > Len(Digicode_all_phis) THEN <<>>
    ELSE LET r == Digicode_execute_phi(Digicode_all_phis[k], mem, inp)
         IN  IF r.ok /\ r.out # NoOutput THEN <<Digicode_all_phis[k]>>
             ELSE IF r.ok THEN <<Digicode_all_phis[k]>> \o Digicode_executed(k + 1, r.mem, inp)
             ELSE Digicode_executed(k + 1, r.mem, inp)

RECURSIVE Door_executed(_, _, _)
Door_executed(k, mem, inp) ==
    IF k > Len(Door_all_phis) THEN <<>>
    ELSE LET r == Door_execute_phi(Door_all_phis[k], mem, inp)
         IN  IF r.ok /\ r.out # NoOutput THEN <<Door_all_phis[k]>>
             ELSE IF r.ok THEN <<Door_all_phis[k]>> \o Door_executed(k + 1, r.mem, inp)
             ELSE Door_executed(k + 1, r.mem, inp)

\* the loop of process_input followed round by round: the number of rounds it
\* takes, the phis of each machine that executed, and what it leaves
RECURSIVE Drained(_, _, _, _)
Drained(c, rounds, digicode, door) ==
    LET c0 == [c EXCEPT !.internal_activity = FALSE]
        c1 == DigicodeTurn(c0)
        c2 == DoorTurn(c1)
        d  == IF c0.pending_digicode_input = NoInput THEN <<>>
              ELSE Digicode_executed(1, c0.system.digicode_mem, c0.pending_digicode_input)
        r  == IF c1.pending_door_input = NoInput THEN <<>>
              ELSE Door_executed(1, c1.system.door_mem, c1.pending_door_input)
    IN  IF ~c2.internal_activity
        THEN [rounds |-> rounds + 1, digicode |-> digicode \o d, door |-> door \o r,
              left |-> c2]
        ELSE Drained(c2, rounds + 1, digicode \o d, door \o r)

\* C24: for every external Digicode input and every reachable pair of
\* memories, process_input terminates; an output is forwarded to the other
\* machine exactly when it is Digicode's Open or the Door's DoorCloses, the
\* machine it is forwarded to acts on it, and the loop ends with the first
\* round in which neither machine produces an output, nothing left pending;
\* one external input makes at most one Digicode phi and at most one Door phi
\* execute.
C24_DrainsAndStops ==
    \A i \in DOMAIN Digicode_all_inputs :
        LET c == process_input(system, Digicode_all_inputs[i])
            d == Drained([system |-> system,
                          pending_digicode_input |-> Digicode_all_inputs[i],
                          pending_door_input |-> NoInput,
                          internal_activity |-> FALSE,
                          printed |-> <<>>], 0, <<>>, <<>>)
        IN  /\ d.left = c
            /\ d.rounds = (IF c.printed = <<>> THEN 1 ELSE 2)
            /\ ~c.internal_activity
            /\ c.pending_door_input = NoInput
            /\ c.pending_digicode_input = NoInput
            /\ Len(d.digicode) <= 1
            /\ Len(d.door) <= 1
            /\ \A k \in DOMAIN c.printed :
                   LET line == c.printed[k]
                   IN  /\ line.routed <=>
                              \/ line.machine = "Digicode" /\ line.output = "Open"
                              \/ line.machine = "Door" /\ line.output = "DoorCloses"
                       /\ line.routed =>
                              /\ k < Len(c.printed)
                              /\ c.printed[k + 1].machine # line.machine

\* the code was entered and OkEnter went through both machines, and a
\* further OkEnter would again
C24_Witness ==
    /\ Len(printed) = 2
    /\ printed[1].routed
    /\ printed[2].machine = "Door"
    /\ system.door_mem > 0
    /\ Len(process_input(system, OkEnter).printed) = 2

\* C25: when find_path_to_satisfy_phi returns a path, no strictly shorter
\* input sequence, replayed from any initial configuration under routed,
\* guarded execution, reaches target_state with a memory on which target_phi
\* accepts trigger_input; and it returns a witness whenever one of at most
\* max_depth = 10 inputs exists.
C25_ShortestWitness ==
    SatReturned =>
        /\ sat.found =>
               \A k \in 0..(Len(sat.path) - 1) :
                   ~Accepting(CfgAt(m, k), sat.target_state, sat.target_phi,
                              sat.trigger_input)
        /\ HasWitness(m, sat.target_state, sat.target_phi, sat.trigger_input)
               => sat.found

\* a witness came back that is longer than the shortest way into the target
\* state: the target state was met earlier, on a memory the target phi rejects
C25_Witness ==
    /\ SatReturned
    /\ sat.found
    /\ Len(sat.path) >= 2
    /\ \E k \in 0..(Len(sat.path) - 1) :
           \E c \in CfgAt(m, k) : c[1] = sat.target_state

\* routing and transition agree on every pair of the machine
RoutingAgrees(M) == \A s \in States, i \in Inputs : Routed(M, s, i) => Arrow(M, s, i)

\* C26: for each state s that plain search reaches and each input i on which
\* routing and transition agree (in a machine in which they agree: every
\* input), exactly one of generate_logic_tests and generate_robustness_tests
\* emits a test for (s, i), and never both; for a state that plain search does
\* not reach, neither generator emits any test.
C26_SuitesPartition ==
    RobustReturned =>
        \A s \in States, i \in Inputs :
            LET L == TestsOf(logic_tests, s, i)
                R == TestsOf(robust_tests, s, i)
            IN  /\ (find_path_to_state(m, s).found /\ (Routed(m, s, i) => Arrow(m, s, i)))
                       => /\ Cardinality(L) + Cardinality(R) = 1
                          /\ (L # {}) <=> Routed(m, s, i)
                /\ ~find_path_to_state(m, s).found => (L = {} /\ R = {})

\* both suites are returned for a machine in which routing and transition
\* agree everywhere, a state of which has a routed and an unrouted input
C26_Witness ==
    /\ RobustReturned
    /\ RoutingAgrees(m)
    /\ \E s \in States, i \in Inputs, j \in Inputs :
           /\ TestsOf(logic_tests, s, i) # {}
           /\ TestsOf(robust_tests, s, j) # {}

\* both suites are returned for a machine with a state plain search does not
\* reach
UnreachedStateSkipped ==
    /\ RobustReturned
    /\ logic_tests # <<>>
    /\ robust_tests # <<>>
    /\ \E s \in States : ~find_path_to_state(m, s).found

(*************************************************************************)
(* Digicode stepped as the generators step it (mbt.rs 184-196): an input *)
(* goes to the phi get_phi_for_input routes it to, the phi's guard is    *)
(* run, and next_state gives the state; an input with no routed phi, a   *)
(* rejecting guard or no next state leaves the machine where it is.      *)
(*************************************************************************)
\* what the last input did: the input, the state it was given in, the phi it
\* was routed to and whether the phi executed
Dispatched(input, from, phi, executed) ==
    [input |-> input, from |-> from, phi |-> phi, executed |-> executed]

RoutedInit ==
    /\ probe = [machine |-> "Digicode",
                state |-> Digicode_initial_states[1],
                store |-> Digicode_initial_store,
                last |-> Dispatched(DoorCloses, NoState, NoPhi, FALSE)]
    /\ GenUnused
    /\ DoorUnused

\* one input of all_inputs under routed, guarded dispatch
RoutedDispatch ==
    \E i \in DOMAIN Digicode_all_inputs :
        LET input == Digicode_all_inputs[i]
            phi == Digicode_get_phi_for_input(probe.state, input)
            r   == Digicode_execute_phi(phi, Clone(probe.store), input)
            nxt == Digicode_next_state(probe.state, phi)
        IN  /\ IF phi # NoPhi /\ r.ok /\ nxt # NoState
               THEN probe' = [probe EXCEPT
                                 !.state = nxt,
                                 !.store = r.mem,
                                 !.last = Dispatched(input, probe.state, phi, TRUE)]
               ELSE probe' = [probe EXCEPT
                                 !.last = Dispatched(input, probe.state, phi, FALSE)]
            /\ UNCHANGED <<genVars, doorVars>>

RoutedNext == RoutedDispatch

RoutedSpec == RoutedInit /\ [][RoutedNext]_vars

\* three digits are entered and they are not the code
StuckInAccepting ==
    /\ probe.state = DigicodeState_Accepting
    /\ Len(probe.store.current_sequence) = Len(probe.store.valid_code)
    /\ probe.store.current_sequence # probe.store.valid_code

\* C27: under routed dispatch the only phis ever executed in Accepting are
\* InputDigit and Finish, so Ignore and Reject never run there; once three
\* digits that are not [4, 9, 2] are entered, every input of all_inputs is
\* rejected (no routed phi, or the guard fails) and the machine stays in
\* Accepting with its memory unchanged from then on.
C27_RoutedDigicodeStuck ==
    /\ []( (probe.last.executed /\ probe.last.from = DigicodeState_Accepting)
              => probe.last.phi \in {"InputDigit", "Finish"} )
    /\ []( StuckInAccepting =>
              \A i \in DOMAIN Digicode_all_inputs :
                  LET phi == Digicode_get_phi_for_input(probe.state, Digicode_all_inputs[i])
                  IN  \/ phi = NoPhi
                      \/ ~Digicode_execute_phi(phi, probe.store, Digicode_all_inputs[i]).ok )
    /\ [][ StuckInAccepting =>
              /\ ~probe'.last.executed
              /\ probe'.state = probe.state
              /\ probe'.store = probe.store ]_vars
    /\ [](StuckInAccepting => []StuckInAccepting)

\* with 4, 9, 3 entered, a further digit and OkEnter have been rejected, the
\* digit by InputDigit's guard
C27_Witness ==
    /\ StuckInAccepting
    /\ probe.store.current_sequence = <<4, 9, 3>>
    /\ probe.last.from = DigicodeState_Accepting
    /\ IsDigit(probe.last.input)
    /\ probe.last.phi = "InputDigit"
    /\ ~probe.last.executed

=============================================================================
